---- MODULE Spec2Model ----
(***************************************************************************)
(* The client-side resilience layer of the WallWhale extension:            *)
(*   SmartCache            src/unnamed/part_002                            *)
(*   CircuitBreaker        src/unnamed/part_007                            *)
(*   ConnectionPool        src/unnamed/part_003 (lines 1111-1255)          *)
(*   OptimizedDownloadApiSdk  src/entrypoints/background/index.ts          *)
(* Each component is a state machine of its own (SpecCache, SpecBreaker,   *)
(* SpecPool); SpecClient composes them the way the optimized SDK does.     *)
(* Time is the value of Date.now(), read once per synchronous step.        *)
(***************************************************************************)
EXTENDS Integers, Sequences, FiniteSets, TLC

VARIABLES
  now,                \* Date.now()
  cfg,                \* the options objects handed to the constructors
  last,               \* the last operation performed and what it returned
  cache,              \* SmartCache.cache: the Map, in insertion order
  brk,                \* CircuitBreaker fields
  pending,            \* wrapped operations admitted by the breaker, not settled
  hist,               \* breaker history: invocations, outcomes, probe successes
  queue,              \* ConnectionPool.queue: request ids in array order
  activeConnections,  \* ConnectionPool.activeConnections
  reqs,               \* every request handed to ConnectionPool.execute
  requestQueue,       \* OptimizedDownloadApiSdk.requestQueue: key -> request
  calls,              \* the callers of the optimized client and their outcome
  drainPc,            \* where a caller of ConnectionPool.drain stands
  wait,               \* a caller of waitForJobCompletion: position and locals
  att,                \* per pool request: lastError of executeRequest, what the
                      \* caller got, calls left running by timed-out attempts
  registry            \* CircuitBreakerRegistry.circuits, in insertion order,
                      \* and the breakers constructed and handed out so far

vars == <<now, cfg, last, cache, brk, pending, hist, queue, activeConnections,
          reqs, requestQueue, calls, drainPc, wait, att, registry>>

-----------------------------------------------------------------------------
(* Bounds of the model *)

MaxTime == 2          \* the clock runs over 0..MaxTime
MaxSizeCfg == 1       \* configured cache sizes 0..MaxSizeCfg (0 = not given)
MaxAccess == 1        \* get is explored while an entry's accessCount is below
MaxCalls == 4         \* execute calls made on one circuit breaker
MaxReqs == 3          \* requests handed to one connection pool
MaxClientCalls == 3   \* calls made on one optimized client
MaxCircuits == 3      \* breakers constructed by one registry
MaxBackoffFailures == 12  \* failures counted by one backoff breaker

(* Defaults of the constructors *)

DefaultMaxSize == 100
DefaultTtlMs == 30000

Null == "null"

\* JavaScript `x || d` on numbers: 0 (and undefined) fall back to the default.
OrDefault(x, d) == IF x = 0 THEN d ELSE x

Tick ==
  /\ now < MaxTime
  /\ now' = now + 1
  /\ last' = [op |-> "tick"]
  /\ UNCHANGED <<cfg, cache, brk, pending, hist, queue, activeConnections,
                 reqs, requestQueue, calls, drainPc, wait, att, registry>>

-----------------------------------------------------------------------------
(* SmartCache *)

\* Keys are strings, modelled as sequences of characters; job ids likewise.
JobIds == {<<1>>, <<1, 2>>}
StatusKey(jobId) == <<0>> \o jobId        \* `job_status_${jobId}`
Keys == {StatusKey(j) : j \in JobIds}
Values == {"v1", "v2"}
TtlArgs == {0, 1}                         \* 0 stands for an omitted ttl

maxSize == OrDefault(cfg.maxSize, DefaultMaxSize)
defaultTtl == OrDefault(cfg.defaultTtl, DefaultTtlMs)

\* String.prototype.includes
Includes(key, pattern) ==
  \E i \in 0..(Len(key) - Len(pattern)) :
     SubSeq(key, i + 1, i + Len(pattern)) = pattern

CacheHasKey(c, key) == \E i \in 1..Len(c) : c[i].key = key
CacheEntry(c, key) == c[CHOOSE i \in 1..Len(c) : c[i].key = key]
CacheKeys(c) == {c[i].key : i \in 1..Len(c)}
MapDelete(c, key) == SelectSeq(c, LAMBDA e : e.key # key)
\* Map.set: an existing key keeps its place in the iteration order.
MapSet(c, entry) ==
  IF CacheHasKey(c, entry.key)
    THEN [i \in 1..Len(c) |-> IF c[i].key = entry.key THEN entry ELSE c[i]]
    ELSE Append(c, entry)

ExpiredAtTtl(entry, t) == t - entry.timestamp >= entry.ttl
Expired(entry, t) == t - entry.timestamp > entry.ttl

RECURSIVE LruScan(_, _, _, _)
LruScan(c, i, lruKey, lruTime) ==
  IF i > Len(c) THEN lruKey
  ELSE IF c[i].lastAccessed < lruTime
         THEN LruScan(c, i + 1, c[i].key, c[i].lastAccessed)
         ELSE LruScan(c, i + 1, lruKey, lruTime)

evictLRU(c, t) ==
  LET lruKey == LruScan(c, 1, <<>>, t)
  IN  IF lruKey # <<>> THEN MapDelete(c, lruKey) ELSE c

setKeepsCreatedAt(c, key, data, ttl, t) ==
  LET c1 == IF Len(c) >= maxSize THEN evictLRU(c, t) ELSE c
      entry == [key |-> key, data |-> data,
                timestamp |-> IF CacheHasKey(c1, key)
                                THEN CacheEntry(c1, key).timestamp ELSE t,
                ttl |-> OrDefault(ttl, defaultTtl), accessCount |-> 0,
                lastAccessed |-> t]
  IN  MapSet(c1, entry)
set(c, key, data, ttl, t) ==
  LET c1 == IF Len(c) >= maxSize THEN evictLRU(c, t) ELSE c
      entry == [key |-> key, data |-> data, timestamp |-> t,
                ttl |-> OrDefault(ttl, defaultTtl), accessCount |-> 0,
                lastAccessed |-> t]
  IN  MapSet(c1, entry)

\* get returns the new map and the value handed to the caller.
get(c, key, t) ==
  IF ~CacheHasKey(c, key) THEN [cache |-> c, result |-> Null]
  ELSE LET e == CacheEntry(c, key)
       IN  IF Expired(e, t)
             THEN [cache |-> MapDelete(c, key), result |-> Null]
             ELSE [cache |-> MapSet(c, [e EXCEPT !.accessCount = @ + 1,
                                                 !.lastAccessed = t]),
                   result |-> e.data]

has(c, key, t) ==
  IF ~CacheHasKey(c, key) THEN [cache |-> c, result |-> FALSE]
  ELSE IF Expired(CacheEntry(c, key), t)
         THEN [cache |-> MapDelete(c, key), result |-> FALSE]
         ELSE [cache |-> c, result |-> TRUE]

invalidateExactKey(c, pattern) == SelectSeq(c, LAMBDA e : e.key # pattern)
invalidate(c, pattern) == SelectSeq(c, LAMBDA e : ~Includes(e.key, pattern))

cleanupAtTtl(c, t) == SelectSeq(c, LAMBDA e : ~ExpiredAtTtl(e, t))
cleanup(c, t) == SelectSeq(c, LAMBDA e : ~Expired(e, t))

CacheUnchanged ==
  UNCHANGED <<now, cfg, brk, pending, hist, queue, activeConnections, reqs,
              requestQueue, calls, drainPc, wait, att, registry>>

CacheSet(key, data, ttl) ==
  /\ cache' = set(cache, key, data, ttl, now)
  /\ last' = [op |-> "set", key |-> key, data |-> data, ttl |-> ttl,
              replaced |-> CacheHasKey(cache, key)]
  /\ CacheUnchanged

CacheGet(key) ==
  /\ CacheHasKey(cache, key) => CacheEntry(cache, key).accessCount < MaxAccess
  /\ cache' = get(cache, key, now).cache
  /\ last' = [op |-> "get", key |-> key, result |-> get(cache, key, now).result,
              purged |-> Len(cache') < Len(cache)]
  /\ CacheUnchanged

CacheHas(key) ==
  /\ cache' = has(cache, key, now).cache
  /\ last' = [op |-> "has", key |-> key, result |-> has(cache, key, now).result,
              purged |-> Len(cache') < Len(cache)]
  /\ CacheUnchanged

CacheDelete(key) ==
  /\ cache' = MapDelete(cache, key)
  /\ last' = [op |-> "delete", key |-> key]
  /\ CacheUnchanged

CacheClear ==
  /\ cache' = <<>>
  /\ last' = [op |-> "clear"]
  /\ CacheUnchanged

CacheInvalidate(pattern) ==
  /\ cache' = invalidate(cache, pattern)
  /\ last' = [op |-> "invalidate", key |-> pattern,
              removed |-> Len(cache) - Len(cache')]
  /\ CacheUnchanged

CacheCleanup ==
  /\ cache' = cleanup(cache, now)
  /\ last' = [op |-> "cleanup", removed |-> Len(cache) - Len(cache')]
  /\ CacheUnchanged

IdleBreaker == [state |-> "CLOSED", failures |-> 0, successes |-> 0,
                totalRequests |-> 0, lastFailureTime |-> 0]
IdleHist == [invoked |-> 0, failed |-> 0, succeeded |-> 0, manual |-> FALSE,
             probeSuccesses |-> 0]
IdleWait == [pc |-> "idle", startTime |-> 0, timeout |-> 0, pollInterval |-> 0,
             lastStatus |-> Null, wake |-> 0, result |-> Null]
IdleRegistry == [circuits |-> <<>>, created |-> 0, issued |-> <<>>]
DefaultCfg == [maxSize |-> 0, defaultTtl |-> 0, failureThreshold |-> 0,
               recoveryTimeout |-> 0, successThreshold |-> 0,
               maxConnections |-> 0, retryAttempts |-> 0, cacheTtl |-> 0,
               backoffMultiplier |-> 0, maxBackoffTime |-> 0]

InitRest ==
  /\ now = 0
  /\ last = [op |-> "new"]
  /\ cache = <<>>
  /\ brk = IdleBreaker
  /\ pending = 0
  /\ hist = IdleHist
  /\ queue = <<>>
  /\ activeConnections = 0
  /\ reqs = <<>>
  /\ requestQueue = <<>>
  /\ calls = <<>>
  /\ drainPc = "none"
  /\ wait = IdleWait
  /\ att = <<>>
  /\ registry = IdleRegistry

InitCache ==
  /\ InitRest
  /\ \E ms \in 0..MaxSizeCfg :
       cfg = [DefaultCfg EXCEPT !.maxSize = ms]

NextCache ==
  \/ Tick
  \/ \E key \in Keys, data \in Values, ttl \in TtlArgs : CacheSet(key, data, ttl)
  \/ \E key \in Keys : CacheGet(key)
  \/ \E key \in Keys : CacheHas(key)
  \/ \E key \in Keys : CacheDelete(key)
  \/ CacheClear
  \/ \E pattern \in Keys : CacheInvalidate(pattern)
  \/ CacheCleanup

SpecCache == InitCache /\ [][NextCache]_vars

\* A cache made for two entries, written and read with both keys.
TwoEntries == 2
InitCacheTwo ==
  /\ InitRest
  /\ cfg = [DefaultCfg EXCEPT !.maxSize = TwoEntries]

NextCacheTwo ==
  \/ Tick
  \/ \E key \in Keys, data \in Values, ttl \in TtlArgs : CacheSet(key, data, ttl)
  \/ \E key \in Keys : CacheGet(key)

SpecCacheTwo == InitCacheTwo /\ [][NextCacheTwo]_vars

-----------------------------------------------------------------------------
(* Properties of SmartCache *)

\* C3: under every sequence of cache operations and clock values the number
\* of stored entries never exceeds maxSize.
C3_SizeNeverExceedsMaxSize == Len(cache) <= maxSize

\* C4: get returns the stored value, and has reports true, exactly while
\* now - timestamp <= ttl; once now - timestamp > ttl (or when the key is not
\* stored) get returns null and has false, and the entry is gone after the call.
C4_VisibleExactlyWhileWithinTtl ==
  [][\A key \in Keys :
       (last'.op \in {"get", "has"} /\ last'.key = key) =>
         IF /\ CacheHasKey(cache, key)
            /\ now - CacheEntry(cache, key).timestamp <= CacheEntry(cache, key).ttl
           THEN /\ last'.result = IF last'.op = "get"
                                     THEN CacheEntry(cache, key).data ELSE TRUE
                /\ CacheHasKey(cache', key)
           ELSE /\ last'.result = IF last'.op = "get" THEN Null ELSE FALSE
                /\ ~CacheHasKey(cache', key)]_vars

\* A get that found its entry one tick past its ttl, returned null and purged it.
C4_Witness ==
  /\ last.op = "get" /\ last.result = Null /\ last.purged
  /\ \E i \in 1..Len(cache) : now - cache[i].timestamp = cache[i].ttl

\* The place of the least recently accessed entry: the smallest lastAccessed,
\* the first such entry in iteration order.
LeastRecent(c) ==
  CHOOSE i \in 1..Len(c) :
    /\ \A j \in 1..Len(c) : c[i].lastAccessed <= c[j].lastAccessed
    /\ \A j \in 1..(i - 1) : c[j].lastAccessed > c[i].lastAccessed

\* C15: a set made with the cache at or above maxSize evicts exactly one entry
\* before inserting, the one with the smallest lastAccessed (the first in
\* iteration order on ties); apart from the entry written, the cache after
\* the set is the cache before it without that entry.
C15_SetAtCapacityEvictsLeastRecent ==
  [][(last'.op = "set" /\ Len(cache) >= maxSize) =>
       LET victim == cache[LeastRecent(cache)].key
           Others(c) == SelectSeq(c, LAMBDA e : e.key # last'.key)
       IN  /\ Others(cache') = Others(MapDelete(cache, victim))
           /\ CacheHasKey(cache', last'.key)
           /\ victim # last'.key => ~CacheHasKey(cache', victim)]_vars

\* C20: after set(k, v, ttl) with a positive ttl the entry of k holds v, the
\* given ttl, timestamp = lastAccessed = now and accessCount = 0, whether or
\* not k was stored (and whatever its old value and expiry were); a get(k)
\* made immediately after the set returns v.
C20_SetThenGetReturnsValue ==
  [][/\ (last'.op = "set" /\ last'.ttl > 0) =>
          /\ CacheHasKey(cache', last'.key)
          /\ CacheEntry(cache', last'.key) =
               [key |-> last'.key, data |-> last'.data, timestamp |-> now,
                ttl |-> last'.ttl, accessCount |-> 0, lastAccessed |-> now]
     /\ (last.op = "set" /\ last.ttl > 0
           /\ last'.op = "get" /\ last'.key = last.key)
          => /\ last'.result = last.data
             /\ CacheHasKey(cache', last.key)
             /\ CacheEntry(cache', last.key).accessCount = 1]_vars

\* A key that was stored is overwritten at time 2 with the value v2 and ttl 1:
\* its entry is dated 2.
C20_Witness ==
  /\ last.op = "set" /\ last.replaced /\ last.ttl = 1 /\ last.data = "v2"
  /\ now = 2
  /\ CacheEntry(cache, last.key).timestamp = 2

\* C37: set(k, v) for a key k that is stored removes no other key, whatever
\* the size of the cache: every other entry stays as it was.
C37_OverwriteRemovesNoOtherKey ==
  [][(last'.op = "set" /\ CacheHasKey(cache, last'.key)) =>
       \A key \in CacheKeys(cache) :
         /\ CacheHasKey(cache', key)
         /\ key # last'.key => CacheEntry(cache', key) = CacheEntry(cache, key)]_vars

\* p occurs in key as a run of consecutive characters.
Contains(key, p) ==
  \E i \in 0..Len(key), j \in 0..Len(key) : i <= j /\ SubSeq(key, i + 1, j) = p

\* C35: invalidate(p) removes every stored key that contains p and leaves
\* every other stored key in place with its entry unchanged; it adds nothing.
C35_InvalidateRemovesExactlyMatchingKeys ==
  [][last'.op = "invalidate" =>
       /\ \A key \in CacheKeys(cache) :
            IF Contains(key, last'.key)
              THEN ~CacheHasKey(cache', key)
              ELSE /\ CacheHasKey(cache', key)
                   /\ CacheEntry(cache', key) = CacheEntry(cache, key)
       /\ CacheKeys(cache') \subseteq CacheKeys(cache)
       /\ last'.removed =
            Cardinality({key \in CacheKeys(cache) : Contains(key, last'.key)})]_vars

\* invalidate(job_status_12) removed that key and left job_status_1, which
\* had been read once, as it was.
C35_Witness ==
  /\ last.op = "invalidate" /\ last.key = StatusKey(<<1, 2>>)
  /\ last.removed = 1
  /\ Len(cache) = 1 /\ cache[1].key = StatusKey(<<1>>)
  /\ cache[1].accessCount = 1

\* C40: cleanup removes exactly the entries with now - timestamp > ttl and
\* keeps every other entry unchanged and in place; no expired entry is left.
C40_CleanupRemovesExactlyExpired ==
  [][last'.op = "cleanup" =>
       /\ \A i \in 1..Len(cache) :
            IF now - cache[i].timestamp > cache[i].ttl
              THEN ~CacheHasKey(cache', cache[i].key)
              ELSE /\ CacheHasKey(cache', cache[i].key)
                   /\ CacheEntry(cache', cache[i].key) = cache[i]
       /\ \A j \in 1..Len(cache') :
            /\ now - cache'[j].timestamp <= cache'[j].ttl
            /\ cache'[j].key \in CacheKeys(cache)
       /\ last'.removed =
            Cardinality({i \in 1..Len(cache) :
                           now - cache[i].timestamp > cache[i].ttl})]_vars

\* A sweep removed one expired entry and kept an entry whose age equals its
\* ttl.
C40_Witness ==
  /\ last.op = "cleanup" /\ last.removed = 1
  /\ Len(cache) = 1 /\ now - cache[1].timestamp = cache[1].ttl

-----------------------------------------------------------------------------
(* CircuitBreaker *)

DefaultFailureThreshold == 5
DefaultRecoveryTimeout == 60000
DefaultSuccessThreshold == 3

failureThreshold == OrDefault(cfg.failureThreshold, DefaultFailureThreshold)
recoveryTimeout == OrDefault(cfg.recoveryTimeout, DefaultRecoveryTimeout)
successThreshold == OrDefault(cfg.successThreshold, DefaultSuccessThreshold)

FailureThresholds == {1, 2}
RecoveryTimeouts == {0, 1}               \* 0 stands for an omitted option
SuccessThresholds == {1, 2}

resetKeepsFailures(b) == [b EXCEPT !.successes = 0, !.state = "CLOSED"]
reset(b) == [b EXCEPT !.failures = 0, !.successes = 0, !.state = "CLOSED"]

trip(b, t) == [b EXCEPT !.state = "OPEN", !.lastFailureTime = t]

shouldAttemptResetAtTimeout(b, t) == t - b.lastFailureTime >= recoveryTimeout
shouldAttemptReset(b, t) == t - b.lastFailureTime > recoveryTimeout

onSuccessClosesWhenOpen(b) ==
  LET b1 == [b EXCEPT !.successes = @ + 1]
  IN  IF b1.state # "CLOSED" /\ b1.successes >= successThreshold
        THEN reset(b1) ELSE b1
onSuccess(b) ==
  LET b1 == [b EXCEPT !.successes = @ + 1]
  IN  IF b1.state = "HALF_OPEN" /\ b1.successes >= successThreshold
        THEN reset(b1) ELSE b1

onFailureKeepsTimeWhenOpen(b, t) ==
  LET b1 == [b EXCEPT !.failures = @ + 1,
                      !.lastFailureTime = IF b.state = "OPEN" THEN @ ELSE t]
  IN  IF b1.failures >= failureThreshold THEN [b1 EXCEPT !.state = "OPEN"] ELSE b1
onFailureOpensLate(b, t) ==
  LET b1 == [b EXCEPT !.failures = @ + 1, !.lastFailureTime = t]
  IN  IF b1.failures > failureThreshold THEN [b1 EXCEPT !.state = "OPEN"] ELSE b1
onFailure(b, t) ==
  LET b1 == [b EXCEPT !.failures = @ + 1, !.lastFailureTime = t]
  IN  IF b1.failures >= failureThreshold THEN [b1 EXCEPT !.state = "OPEN"] ELSE b1

breakerGateCountsAdmitted(b, t) ==
  IF b.state = "OPEN"
    THEN IF shouldAttemptReset(b, t)
           THEN [brk |-> [b EXCEPT !.totalRequests = @ + 1, !.state = "HALF_OPEN"],
                 invoked |-> TRUE]
           ELSE [brk |-> b, invoked |-> FALSE]
    ELSE [brk |-> [b EXCEPT !.totalRequests = @ + 1], invoked |-> TRUE]
breakerGateRecordsRejection(b, t) ==
  LET b1 == [b EXCEPT !.totalRequests = @ + 1]
  IN  IF b1.state = "OPEN"
        THEN IF shouldAttemptReset(b1, t)
               THEN [brk |-> [b1 EXCEPT !.state = "HALF_OPEN"], invoked |-> TRUE]
               ELSE [brk |-> [b1 EXCEPT !.lastFailureTime = t], invoked |-> FALSE]
        ELSE [brk |-> b1, invoked |-> TRUE]
\* CircuitBreaker.execute up to `await fn()`: the breaker after the gate, and
\* whether the wrapped operation is invoked (FALSE: the circuit-open error).
breakerGate(b, t) ==
  LET b1 == [b EXCEPT !.totalRequests = @ + 1]
  IN  IF b1.state = "OPEN"
        THEN IF shouldAttemptReset(b1, t)
               THEN [brk |-> [b1 EXCEPT !.state = "HALF_OPEN"], invoked |-> TRUE]
               ELSE [brk |-> b1, invoked |-> FALSE]
        ELSE [brk |-> b1, invoked |-> TRUE]

BreakerUnchanged ==
  UNCHANGED <<now, cfg, cache, queue, activeConnections, reqs, requestQueue,
              calls, drainPc, wait, att, registry>>

\* A caller runs execute(fn): the gate, and fn() is called if it lets it through.
BrkExecute ==
  /\ brk.totalRequests < MaxCalls
  /\ LET g == breakerGate(brk, now)
     IN  /\ brk' = g.brk
         /\ pending' = IF g.invoked THEN pending + 1 ELSE pending
         /\ hist' = [hist EXCEPT
                       !.invoked = IF g.invoked THEN @ + 1 ELSE @,
                       !.probeSuccesses =
                          IF brk.state = "OPEN" /\ g.brk.state = "HALF_OPEN"
                            THEN 0 ELSE @]
         /\ last' = [op |-> "execute",
                     result |-> IF g.invoked THEN "invoked" ELSE "circuit_open"]
  /\ BreakerUnchanged

\* The errors a wrapped operation can reject with.
Errors == {"network_error", "http_500"}

\* CircuitBreaker.execute from the settlement of `await fn()` on: the breaker
\* after onSuccess/onFailure and what execute hands to its caller.
executeSwallowsError(b, t, outcome) ==
  [brk |-> IF outcome.ok THEN onSuccess(b) ELSE onFailure(b, t),
   caller |-> IF outcome.ok THEN outcome ELSE [ok |-> TRUE, v |-> Null]]
executeSettle(b, t, outcome) ==
  [brk |-> IF outcome.ok THEN onSuccess(b) ELSE onFailure(b, t),
   caller |-> outcome]

\* A wrapped operation resolves: the try branch of execute.
BrkSucceed(value) ==
  /\ pending > 0
  /\ pending' = pending - 1
  /\ LET s == executeSettle(brk, now, [ok |-> TRUE, v |-> value])
     IN  /\ brk' = s.brk
         /\ last' = [op |-> "success", fn |-> [ok |-> TRUE, v |-> value],
                     caller |-> s.caller]
  /\ hist' = [hist EXCEPT !.succeeded = @ + 1,
                          !.probeSuccesses =
                             IF brk.state = "HALF_OPEN" THEN @ + 1 ELSE @]
  /\ BreakerUnchanged

\* A wrapped operation rejects: the catch branch of execute.
BrkFail(error) ==
  /\ pending > 0
  /\ pending' = pending - 1
  /\ LET s == executeSettle(brk, now, [ok |-> FALSE, v |-> error])
     IN  /\ brk' = s.brk
         /\ last' = [op |-> "failure", fn |-> [ok |-> FALSE, v |-> error],
                     caller |-> s.caller]
  /\ hist' = [hist EXCEPT !.failed = @ + 1, !.probeSuccesses = 0]
  /\ BreakerUnchanged

BrkTrip ==
  /\ brk' = trip(brk, now)
  /\ hist' = [hist EXCEPT !.manual = TRUE, !.probeSuccesses = 0]
  /\ last' = [op |-> "trip"]
  /\ UNCHANGED pending
  /\ BreakerUnchanged

BrkForceClose ==
  /\ brk' = reset(brk)
  /\ hist' = [hist EXCEPT !.manual = TRUE, !.probeSuccesses = 0]
  /\ last' = [op |-> "forceClose"]
  /\ UNCHANGED pending
  /\ BreakerUnchanged

InitBreaker ==
  /\ InitRest
  /\ \E ft \in FailureThresholds, rt \in RecoveryTimeouts, st \in SuccessThresholds :
       cfg = [DefaultCfg EXCEPT !.failureThreshold = ft, !.recoveryTimeout = rt,
                                !.successThreshold = st]

NextBreaker ==
  \/ Tick
  \/ BrkExecute
  \/ \E value \in Values : BrkSucceed(value)
  \/ \E error \in Errors : BrkFail(error)
  \/ BrkTrip
  \/ BrkForceClose

SpecBreaker == InitBreaker /\ [][NextBreaker]_vars

-----------------------------------------------------------------------------
(* CircuitBreakerRegistry.  Every breaker constructed gets a number, its    *)
(* identity as an object; `issued` keeps, per name, the first breaker that  *)
(* getCircuit returned for it.                                              *)

ServiceNames == {"api", "cdn"}
RegistryThresholds == {1, 2}      \* options.failureThreshold of getCircuit

HasCircuit(R, name) == \E i \in 1..Len(R.circuits) : R.circuits[i].name = name
CircuitOf(R, name) ==
  R.circuits[CHOOSE i \in 1..Len(R.circuits) : R.circuits[i].name = name]
Issued(R, name) ==
  IF \E i \in 1..Len(R.issued) : R.issued[i].name = name
    THEN (R.issued[CHOOSE i \in 1..Len(R.issued) : R.issued[i].name = name]).id
    ELSE 0

\* circuits.set(serviceName, new CircuitBreaker(options))
NewCircuit(R, name, options) ==
  [R EXCEPT !.circuits = Append(SelectSeq(@, LAMBDA c : c.name # name),
                                [name |-> name, id |-> R.created + 1,
                                 options |-> options, brk |-> IdleBreaker]),
            !.created = @ + 1]

getCircuitAlwaysCreates(R, name, options) == NewCircuit(R, name, options)
\* getCircuit(serviceName, options): the registry after the call; the breaker
\* returned is the one stored under the name.
getCircuit(R, name, options) ==
  IF ~HasCircuit(R, name) THEN NewCircuit(R, name, options) ELSE R

removeCircuit(R, name) ==
  [R EXCEPT !.circuits = SelectSeq(@, LAMBDA c : c.name # name)]

resetAll(R) ==
  [R EXCEPT !.circuits = [i \in 1..Len(@) |-> [@[i] EXCEPT !.brk = reset(@)]]]

\* onFailure of one breaker of the registry, with the failureThreshold that
\* breaker was constructed with.
circuitOnFailure(c, t) ==
  LET b1 == [c.brk EXCEPT !.failures = @ + 1, !.lastFailureTime = t]
  IN  IF b1.failures >= OrDefault(c.options, DefaultFailureThreshold)
        THEN [b1 EXCEPT !.state = "OPEN"] ELSE b1

\* execute(fn) on one breaker of the registry with an fn that rejects: the
\* gate, then onFailure when fn was invoked.
circuitExecuteFailing(c, t) ==
  LET g == breakerGate(c.brk, t)
  IN  IF g.invoked THEN [c EXCEPT !.brk = circuitOnFailure([c EXCEPT !.brk = g.brk], t)]
                   ELSE [c EXCEPT !.brk = g.brk]

RegistryUnchanged ==
  UNCHANGED <<now, cfg, cache, brk, pending, hist, queue, activeConnections,
              reqs, requestQueue, calls, drainPc, wait, att>>

RegGetCircuit(name, options) ==
  /\ HasCircuit(registry, name) \/ registry.created < MaxCircuits
  /\ LET R == getCircuit(registry, name, options)
         id == CircuitOf(R, name).id
     IN  /\ registry' =
              IF Issued(R, name) = 0
                THEN [R EXCEPT !.issued = Append(@, [name |-> name, id |-> id])]
                ELSE R
         /\ last' = [op |-> "getCircuit", name |-> name, options |-> options,
                     id |-> id]
  /\ RegistryUnchanged

\* A caller runs getCircuit(name).execute(fn) and fn rejects.
RegExecuteFails(name) ==
  /\ HasCircuit(registry, name)
  /\ CircuitOf(registry, name).brk.totalRequests < MaxCalls
  /\ registry' =
       [registry EXCEPT !.circuits =
          [i \in 1..Len(@) |->
             IF @[i].name = name THEN circuitExecuteFailing(@[i], now) ELSE @[i]]]
  /\ last' = [op |-> "failure", name |-> name]
  /\ RegistryUnchanged

RegResetAll ==
  /\ registry' = resetAll(registry)
  /\ last' = [op |-> "resetAll"]
  /\ RegistryUnchanged

RegRemoveCircuit(name) ==
  /\ registry' = removeCircuit(registry, name)
  /\ last' = [op |-> "removeCircuit", name |-> name,
              result |-> HasCircuit(registry, name)]
  /\ RegistryUnchanged

InitRegistry ==
  /\ InitRest
  /\ cfg = DefaultCfg

NextRegistry ==
  \/ \E name \in ServiceNames, options \in RegistryThresholds :
       RegGetCircuit(name, options)
  \/ \E name \in ServiceNames : RegExecuteFails(name)
  \/ RegResetAll
  \/ \E name \in ServiceNames : RegRemoveCircuit(name)

SpecRegistry == InitRegistry /\ [][NextRegistry]_vars

-----------------------------------------------------------------------------
(* Properties of CircuitBreaker *)

\* No success and no manual override since construction.
OnlyFailuresSoFar == hist.succeeded = 0 /\ ~hist.manual

\* C2: from a fresh breaker, the failureThreshold-th failing execution leaves
\* the state OPEN (with failureThreshold invocations when the calls ran one
\* after the other), and an execute call made while OPEN with
\* now - lastFailureTime <= recoveryTimeout gets the circuit-open error
\* without invoking the operation: the invocation count does not move.
C2_OpensAtThresholdAndFailsFast ==
  [][/\ (last'.op = "failure" /\ OnlyFailuresSoFar' /\ hist'.failed = failureThreshold)
          => /\ brk'.state = "OPEN"
             /\ pending' = 0 => hist'.invoked = failureThreshold
     /\ (last'.op = "execute" /\ brk.state = "OPEN"
           /\ now - brk.lastFailureTime <= recoveryTimeout)
          => /\ last'.result = "circuit_open"
             /\ hist'.invoked = hist.invoked
             /\ pending' = pending
             /\ brk'.state = "OPEN"]_vars

\* failureThreshold failing calls, then one more call that was turned away.
C2_Witness ==
  /\ OnlyFailuresSoFar
  /\ hist.failed = failureThreshold /\ hist.invoked = failureThreshold
  /\ failureThreshold > 1
  /\ last.op = "execute" /\ last.result = "circuit_open"
  /\ brk.state = "OPEN" /\ brk.totalRequests = failureThreshold + 1

\* C9 as stated: an execute call on an OPEN breaker made when
\* now - lastFailureTime >= recoveryTimeout moves it to HALF_OPEN and invokes
\* the operation; an earlier call fails with the circuit-open error.
C9_AdmitsAtRecoveryTimeout ==
  [][(last'.op = "execute" /\ brk.state = "OPEN") =>
       IF now - brk.lastFailureTime >= recoveryTimeout
         THEN brk'.state = "HALF_OPEN" /\ last'.result = "invoked"
                /\ hist'.invoked = hist.invoked + 1
         ELSE brk'.state = "OPEN" /\ last'.result = "circuit_open"
                /\ hist'.invoked = hist.invoked]_vars

\* C9 amended: the call is let through (HALF_OPEN, operation invoked) exactly
\* when now - lastFailureTime > recoveryTimeout; at or before recoveryTimeout
\* it fails with the circuit-open error and the operation does not run.
C9_AdmitsAfterRecoveryTimeout ==
  [][(last'.op = "execute" /\ brk.state = "OPEN") =>
       IF now - brk.lastFailureTime > recoveryTimeout
         THEN brk'.state = "HALF_OPEN" /\ last'.result = "invoked"
                /\ hist'.invoked = hist.invoked + 1
         ELSE brk'.state = "OPEN" /\ last'.result = "circuit_open"
                /\ hist'.invoked = hist.invoked]_vars

\* A probe let through one tick after recoveryTimeout had elapsed.
C9_Witness ==
  /\ last.op = "execute" /\ last.result = "invoked"
  /\ brk.state = "HALF_OPEN"
  /\ now - brk.lastFailureTime = recoveryTimeout + 1

\* C10: a success in HALF_OPEN closes the breaker when, and only when,
\* successThreshold consecutive successes have occurred since it entered
\* HALF_OPEN; the counters are then 0.
C10_ClosesOnlyAfterProbeSuccesses ==
  [][(last'.op = "success" /\ brk.state = "HALF_OPEN") =>
       /\ brk'.state = "CLOSED" <=> hist'.probeSuccesses >= successThreshold
       /\ brk'.state = "CLOSED" => brk'.failures = 0 /\ brk'.successes = 0]_vars

\* C11: a failed execution while HALF_OPEN leaves the breaker OPEN with
\* lastFailureTime = now, whether HALF_OPEN was reached after a threshold trip
\* or after a manual trip(); a failed execution while CLOSED leaves it OPEN
\* once failures has reached failureThreshold.
C11_FailureInHalfOpenReopens ==
  [][last'.op = "failure" =>
       /\ brk.state = "HALF_OPEN"
            => brk'.state = "OPEN" /\ brk'.lastFailureTime = now
       /\ (brk.state = "CLOSED" /\ brk'.failures >= failureThreshold)
            => brk'.state = "OPEN" /\ brk'.lastFailureTime = now]_vars

\* C12: when execute has invoked the wrapped operation, what the caller gets
\* is what the operation settled with: the same value on success, the same
\* error on failure.
C12_CallerGetsOperationOutcome ==
  [][last'.op \in {"success", "failure"} =>
       /\ last'.caller = last'.fn
       /\ last'.caller.ok <=> last'.op = "success"]_vars

\* An operation that execute had invoked failed with http_500, the caller got
\* that error, and the failure opened the breaker.
C12_Witness ==
  /\ last.op = "failure" /\ last.caller = [ok |-> FALSE, v |-> "http_500"]
  /\ brk.state = "OPEN" /\ hist.invoked > failureThreshold

\* C26: a step other than trip() and forceClose() changes the state only
\* along CLOSED->OPEN, OPEN->HALF_OPEN, HALF_OPEN->CLOSED and HALF_OPEN->OPEN,
\* however the executes in flight interleave.
C26_StateChangesAlongTheMachine ==
  [][(last'.op \notin {"trip", "forceClose"} /\ brk'.state # brk.state) =>
       <<brk.state, brk'.state>> \in
          {<<"CLOSED", "OPEN">>, <<"OPEN", "HALF_OPEN">>,
           <<"HALF_OPEN", "CLOSED">>, <<"HALF_OPEN", "OPEN">>}]_vars

\* With no manual override, a breaker that had opened was closed again by a
\* success in HALF_OPEN while another execute was still in flight.
C26_Witness ==
  /\ ~hist.manual /\ last.op = "success"
  /\ brk.state = "CLOSED" /\ brk.failures = 0
  /\ hist.failed >= failureThreshold /\ pending > 0

\* C27: whenever the state is CLOSED, failures < failureThreshold.
C27_ClosedImpliesBelowThreshold ==
  brk.state = "CLOSED" => brk.failures < failureThreshold

\* A closed breaker one failure short of its threshold, after a manual
\* override, with an execute still in flight.
C27_Witness ==
  /\ brk.state = "CLOSED" /\ hist.manual
  /\ failureThreshold = 2 /\ brk.failures = 1 /\ pending > 0

\* C31: every execute call adds exactly 1 to totalRequests, the calls turned
\* away by the open circuit included, and nothing else does; a wrapped
\* operation that succeeds adds 1 to successes and one that fails adds 1 to
\* failures (a success that closes the breaker then resets both to 0), and
\* execute itself moves neither; totalRequests >= successes + failures.
C31_CountersFollowTheCalls ==
  /\ [](brk.totalRequests >= brk.successes + brk.failures)
  /\ [][/\ brk'.totalRequests =
            IF last'.op = "execute" THEN brk.totalRequests + 1
                                    ELSE brk.totalRequests
        /\ last'.op = "execute" =>
             brk'.successes = brk.successes /\ brk'.failures = brk.failures
        /\ last'.op = "success" =>
             IF brk.state = "HALF_OPEN" /\ brk'.state = "CLOSED"
               THEN brk'.successes = 0 /\ brk'.failures = 0
               ELSE /\ brk'.successes = brk.successes + 1
                    /\ brk'.failures = brk.failures
        /\ last'.op = "failure" =>
             /\ brk'.failures = brk.failures + 1
             /\ brk'.successes = brk.successes
        /\ last'.op = "trip" =>
             brk'.successes = brk.successes /\ brk'.failures = brk.failures]_vars

\* One success, failures up to the threshold, and a call turned away by the
\* open circuit: four calls counted, three of them settled.
C31_Witness ==
  /\ last.op = "execute" /\ last.result = "circuit_open"
  /\ brk.successes = 1 /\ brk.failures = 2 /\ brk.totalRequests = 4
  /\ pending = 0 /\ ~hist.manual

\* C32: an execute call turned away because the breaker is OPEN and the
\* recovery time has not elapsed changes nothing but totalRequests: state,
\* failures, successes and lastFailureTime stay, so the time from which a
\* call is let through does not move.
C32_FastFailChangesOnlyTotalRequests ==
  [][(last'.op = "execute" /\ last'.result = "circuit_open") =>
       /\ brk.state = "OPEN" /\ ~shouldAttemptReset(brk, now)
       /\ brk' = [brk EXCEPT !.totalRequests = @ + 1]
       /\ \A t \in 0..MaxTime :
            shouldAttemptReset(brk', t) <=> shouldAttemptReset(brk, t)]_vars

\* A call was turned away one tick after the failure that opened the breaker.
C32_Witness ==
  /\ last.op = "execute" /\ last.result = "circuit_open"
  /\ brk.state = "OPEN" /\ brk.failures > 0
  /\ now > brk.lastFailureTime /\ ~hist.manual

\* C33 as stated: while the breaker is OPEN, the completion of an operation
\* admitted earlier changes neither lastFailureTime nor the state.
C33_CompletionWhileOpenKeepsFailureTime ==
  [][(last'.op \in {"success", "failure"} /\ brk.state = "OPEN") =>
       /\ brk'.state = "OPEN"
       /\ brk'.lastFailureTime = brk.lastFailureTime]_vars

\* C33 amended: while the breaker is OPEN, no completion changes the state;
\* a success leaves lastFailureTime as it is, a failure sets it to the time
\* of that failure, from which the recovery time then runs.
C33_FailureWhileOpenMovesFailureTime ==
  [][(last'.op \in {"success", "failure"} /\ brk.state = "OPEN") =>
       /\ brk'.state = "OPEN"
       /\ last'.op = "success" => brk'.lastFailureTime = brk.lastFailureTime
       /\ last'.op = "failure" =>
            /\ brk'.lastFailureTime = now
            /\ \A t \in 0..MaxTime :
                 shouldAttemptReset(brk', t) <=> t - now > recoveryTimeout]_vars

\* Two operations were admitted while CLOSED; the first failed at time 0 and
\* opened the breaker, the second failed one tick later (too early for any
\* probe) and lastFailureTime moved to that tick.
C33_Witness ==
  /\ last.op = "failure" /\ brk.state = "OPEN"
  /\ failureThreshold = 1 /\ hist.failed = 2 /\ hist.succeeded = 0
  /\ ~hist.manual /\ now = 1 /\ now <= recoveryTimeout
  /\ brk.lastFailureTime = 1

\* The breakers of the registry other than the one stored under `name`.
OtherCircuits(R, name) == SelectSeq(R.circuits, LAMBDA c : c.name # name)

\* C34 as stated: getCircuit returns, for one name, the same breaker on
\* every call, and breakers with different numbers for different names; a
\* failure recorded through one name changes no other name's breaker.
C34_SameBreakerOnEveryCall ==
  [][/\ last'.op = "getCircuit" =>
          /\ Issued(registry, last'.name) # 0 =>
               last'.id = Issued(registry, last'.name)
          /\ \A c \in 1..Len(registry'.circuits) :
               registry'.circuits[c].name # last'.name =>
                 registry'.circuits[c].id # last'.id
     /\ last'.op = "failure" =>
          OtherCircuits(registry', last'.name) = OtherCircuits(registry, last'.name)]_vars

\* C34 amended: getCircuit returns the breaker stored under the name,
\* unchanged and whatever options the call carries, as long as the name has
\* not been removed; for a name that is not stored (never used, or removed
\* by removeCircuit) it constructs a new breaker with the options of the
\* call.  Different names never share a breaker, and a failure recorded
\* through one name changes no other name's breaker.
C34_SameBreakerUntilRemoved ==
  /\ [](\A i, j \in 1..Len(registry.circuits) :
          i # j => /\ registry.circuits[i].name # registry.circuits[j].name
                   /\ registry.circuits[i].id # registry.circuits[j].id)
  /\ [][/\ last'.op = "getCircuit" =>
            /\ OtherCircuits(registry', last'.name)
                 = OtherCircuits(registry, last'.name)
            /\ CircuitOf(registry', last'.name).id = last'.id
            /\ IF HasCircuit(registry, last'.name)
                 THEN CircuitOf(registry', last'.name)
                        = CircuitOf(registry, last'.name)
                 ELSE /\ last'.id > registry.created
                      /\ CircuitOf(registry', last'.name) =
                           [name |-> last'.name, id |-> last'.id,
                            options |-> last'.options, brk |-> IdleBreaker]
        /\ last'.op = "failure" =>
            /\ OtherCircuits(registry', last'.name)
                 = OtherCircuits(registry, last'.name)
            /\ CircuitOf(registry', last'.name).brk.totalRequests
                 = CircuitOf(registry, last'.name).brk.totalRequests + 1]_vars

\* getCircuit("api", {failureThreshold: 2}) returned the breaker made
\* earlier with threshold 1, which one failure had opened, while the breaker
\* of "cdn" is CLOSED with no failure.
C34_Witness ==
  /\ last.op = "getCircuit" /\ last.name = "api" /\ last.options = 2
  /\ HasCircuit(registry, "api") /\ HasCircuit(registry, "cdn")
  /\ CircuitOf(registry, "api").id = last.id
  /\ CircuitOf(registry, "api").options = 1
  /\ CircuitOf(registry, "api").brk.state = "OPEN"
  /\ CircuitOf(registry, "cdn").brk = IdleBreaker
  /\ registry.created = 2

-----------------------------------------------------------------------------
(* ConnectionPool *)

DefaultMaxConnections == 3
DefaultRetryAttempts == 3

maxConnections == OrDefault(cfg.maxConnections, DefaultMaxConnections)
retryAttempts == OrDefault(cfg.retryAttempts, DefaultRetryAttempts)

ConnectionLimits == {1, 2}
RetryOptions == {0, 1, 2}                \* 0: `retryAttempts: 0`, or omitted
Priorities == {0, 5}

\* Array.prototype.sort with (a, b) => b.priority - a.priority: stable, so
\* entries of equal priority keep their array order.
InsertByPriority(sorted, id, R) ==
  LET ahead == {i \in 1..Len(sorted) : R[sorted[i]].priority >= R[id].priority}
      n == Cardinality(ahead)
  IN  SubSeq(sorted, 1, n) \o <<id>> \o SubSeq(sorted, n + 1, Len(sorted))

RECURSIVE SortFrom(_, _, _, _)
SortFrom(q, i, sorted, R) ==
  IF i > Len(q) THEN sorted
  ELSE SortFrom(q, i + 1, InsertByPriority(sorted, q[i], R), R)

KeepArrayOrder(q, R) == q
SortByPriority(q, R) == SortFrom(q, 1, <<>>, R)

\* executeRequest up to its first await: attempt `attempt` calls request().
StartAttempt(R, id, attempt) ==
  [R EXCEPT ![id].state = "running", ![id].attempt = attempt,
            ![id].invocations = @ + 1]

SlotFreeOrFull(active) == active <= maxConnections
SlotFree(active) == active < maxConnections

\* The while loop of processQueue.
RECURSIVE DispatchLoop(_, _, _)
DispatchLoop(q, active, R) ==
  IF Len(q) > 0 /\ SlotFree(active)
    THEN DispatchLoop(Tail(q), active + 1, StartAttempt(R, Head(q), 0))
    ELSE [queue |-> q, activeConnections |-> active, reqs |-> R]

processQueueOnlyWhenIdle(q, active, R) ==
  IF active > 0
    THEN [queue |-> q, activeConnections |-> active, reqs |-> R]
    ELSE DispatchLoop(SortByPriority(q, R), active, R)
processQueue(q, active, R) ==
  IF active >= maxConnections
    THEN [queue |-> q, activeConnections |-> active, reqs |-> R]
    ELSE DispatchLoop(SortByPriority(q, R), active, R)

PoolBecomes(p) ==
  /\ queue' = p.queue
  /\ activeConnections' = p.activeConnections
  /\ reqs' = p.reqs

PoolUnchanged ==
  UNCHANGED <<now, cfg, cache, brk, pending, hist, requestQueue, calls, wait,
              att, registry>>

PoolStepUnchanged == PoolUnchanged /\ UNCHANGED drainPc

executeWithoutDispatch(q, active, R, priority) ==
  LET id == Len(R) + 1
      R1 == Append(R, [priority |-> priority, state |-> "queued",
                       attempt |-> 0, invocations |-> 0])
  IN  [queue |-> Append(q, id), activeConnections |-> active, reqs |-> R1]

\* ConnectionPool.execute(request, priority): the pool after the push and
\* the processQueue call.
execute(q, active, R, priority) ==
  LET id == Len(R) + 1
      R1 == Append(R, [priority |-> priority, state |-> "queued",
                       attempt |-> 0, invocations |-> 0])
  IN  processQueue(Append(q, id), active, R1)

PoolExecute(priority) ==
  /\ Len(reqs) < MaxReqs
  /\ PoolBecomes(execute(queue, activeConnections, reqs, priority))
  /\ last' = [op |-> "execute", id |-> Len(reqs) + 1]
  /\ PoolStepUnchanged

\* The race of an attempt is won by the request, which resolved: the caller
\* is resolved, the slot is given back and the queue is processed.
ResolveAttempt(id) ==
  /\ reqs[id].state = "running"
  /\ PoolBecomes(processQueue(queue, activeConnections - 1,
                              [reqs EXCEPT ![id].state = "resolved"]))

\* The race of an attempt ends in a rejection (the request threw, or the
\* timer fired first) and attempts are left: the backoff delay starts.
RetryAttempt(id) ==
  /\ reqs[id].state = "running"
  /\ reqs[id].attempt < retryAttempts
  /\ reqs' = [reqs EXCEPT ![id].state = "backoff"]
  /\ UNCHANGED <<queue, activeConnections>>

RejectRequestKeepsSlot(id) ==
  /\ reqs[id].state = "running"
  /\ ~(reqs[id].attempt < retryAttempts)
  /\ reqs' = [reqs EXCEPT ![id].state = "rejected"]
  /\ UNCHANGED <<queue, activeConnections>>
\* The last attempt ends in a rejection: the for loop is left, the caller is
\* rejected, the slot is given back and the queue is processed.
RejectRequest(id) ==
  /\ reqs[id].state = "running"
  /\ ~(reqs[id].attempt < retryAttempts)
  /\ PoolBecomes(processQueue(queue, activeConnections - 1,
                              [reqs EXCEPT ![id].state = "rejected"]))

\* The backoff delay is over: the for loop starts the next attempt.
NextAttempt(id) ==
  /\ reqs[id].state = "backoff"
  /\ reqs' = StartAttempt(reqs, id, reqs[id].attempt + 1)
  /\ UNCHANGED <<queue, activeConnections>>

AttemptSucceeds(id) ==
  /\ ResolveAttempt(id)
  /\ last' = [op |-> "resolve", id |-> id]
  /\ PoolStepUnchanged

AttemptFails(id) ==
  /\ \/ RetryAttempt(id) /\ last' = [op |-> "retry", id |-> id]
     \/ RejectRequest(id) /\ last' = [op |-> "reject", id |-> id]
  /\ PoolStepUnchanged

BackoffElapses(id) ==
  /\ NextAttempt(id)
  /\ last' = [op |-> "attempt", id |-> id]
  /\ PoolStepUnchanged

clearQueueKeepsEntries(q, R) ==
  [queue |-> q,
   reqs |-> [id \in 1..Len(R) |->
               IF \E i \in 1..Len(q) : q[i] = id
                 THEN [R[id] EXCEPT !.state = "cancelled"] ELSE R[id]]]
\* ConnectionPool.clearQueue: every entry of the queue is rejected with the
\* "Request cancelled due to queue clear" error and the array is replaced.
clearQueue(q, R) ==
  [queue |-> <<>>,
   reqs |-> [id \in 1..Len(R) |->
               IF \E i \in 1..Len(q) : q[i] = id
                 THEN [R[id] EXCEPT !.state = "cancelled"] ELSE R[id]]]

PoolClearQueue ==
  /\ reqs' = clearQueue(queue, reqs).reqs
  /\ queue' = clearQueue(queue, reqs).queue
  /\ UNCHANGED activeConnections
  /\ last' = [op |-> "clearQueue"]
  /\ PoolStepUnchanged

\* The loop condition of ConnectionPool.drain.
drainWaitsForQueueOnly(active, q) == Len(q) > 0
drainWaits(active, q) == active > 0 \/ Len(q) > 0

\* drain() is called: the loop condition is tested at once; the caller either
\* is resolved or starts the 100 ms timer.
PoolDrain ==
  /\ drainPc = "none"
  /\ drainPc' = IF drainWaits(activeConnections, queue) THEN "waiting"
                                                        ELSE "resolved"
  /\ last' = [op |-> "drain"]
  /\ UNCHANGED <<queue, activeConnections, reqs>>
  /\ PoolUnchanged

\* The 100 ms timer of drain fires: the loop condition is tested again.
PoolDrainPoll ==
  /\ drainPc = "waiting"
  /\ drainPc' = IF drainWaits(activeConnections, queue) THEN "waiting"
                                                        ELSE "resolved"
  /\ last' = [op |-> "drainPoll"]
  /\ UNCHANGED <<queue, activeConnections, reqs>>
  /\ PoolUnchanged

InitPool ==
  /\ InitRest
  /\ \E mc \in ConnectionLimits, ra \in RetryOptions :
       cfg = [DefaultCfg EXCEPT !.maxConnections = mc, !.retryAttempts = ra]

NextPool ==
  \/ \E priority \in Priorities : PoolExecute(priority)
  \/ \E id \in 1..Len(reqs) : AttemptSucceeds(id)
  \/ \E id \in 1..Len(reqs) : AttemptFails(id)
  \/ \E id \in 1..Len(reqs) : BackoffElapses(id)
  \/ PoolClearQueue

SpecPool == InitPool /\ [][NextPool]_vars

\* A pool with a caller of drain(), as at shutdown.
InitDrain ==
  /\ InitRest
  /\ \E mc \in ConnectionLimits :
       cfg = [DefaultCfg EXCEPT !.maxConnections = mc, !.retryAttempts = 1]

NextDrain ==
  \/ NextPool
  \/ PoolDrain
  \/ PoolDrainPoll

SpecDrain == InitDrain /\ [][NextDrain]_vars

-----------------------------------------------------------------------------
(* ConnectionPool.executeRequest attempt by attempt: what each attempt ends *)
(* with, the error kept in lastError, what the caller is settled with, and  *)
(* the underlying calls that a fired timer left running.  The timer of an   *)
(* attempt fires `timeout` ms after its start and the call may take any     *)
(* time, so either may come first while the attempt is awaited.             *)

MaxRetryReqs == 2     \* requests handed to the pool in this view

DefaultPriority == 0

\* What request() can reject with: an Error, or a value that is not an Error.
Thrown == {[isError |-> TRUE, message |-> "http_500"],
           [isError |-> FALSE, message |-> "aborted"]}
TimeoutError == [isError |-> TRUE, message |-> "Request timeout"]
GenericError == [isError |-> TRUE, message |-> "Request failed after all retries"]
CancelError == [isError |-> TRUE, message |-> "Request cancelled due to queue clear"]

NoError == [isError |-> FALSE, message |-> Null]       \* lastError = null

\* What the caller of execute holds: a pending promise, a value or an error.
Pending == [status |-> "pending", value |-> Null, error |-> NoError]
Resolved(value) == [status |-> "resolved", value |-> value, error |-> NoError]
Rejected(error) == [status |-> "rejected", value |-> Null, error |-> error]

RetryLimits == {1, 2}
\* The value of the underlying call plays no part in the attempts.
RetryValues == {"v1"}

\* error instanceof Error ? error : new Error(String(error))
toError(thrown) == [isError |-> TRUE, message |-> thrown.message]

\* The catch block: lastError after an attempt ended with `thrown`.
keepFirstError(lastError, thrown) ==
  IF lastError = NoError THEN toError(thrown) ELSE lastError
catchError(lastError, thrown) == toError(thrown)

\* lastError || new Error("Request failed after all retries")
rejectionError(lastError) ==
  IF lastError = NoError THEN GenericError ELSE lastError

\* An underlying call settles after the timer of its attempt has fired: the
\* race of that attempt is over and nothing is awaiting the call.
deliverLate(a) ==
  [a EXCEPT !.orphans = @ - 1, !.outcome = Resolved("late")]
discardLate(a) == [a EXCEPT !.orphans = @ - 1]

NewAttempts == [lastError |-> NoError, outcome |-> Pending, orphans |-> 0]

RetryUnchanged ==
  UNCHANGED <<now, cfg, cache, brk, pending, hist, requestQueue, calls, wait,
              drainPc, registry>>

RtExecute ==
  /\ Len(reqs) < MaxRetryReqs
  /\ PoolBecomes(execute(queue, activeConnections, reqs, DefaultPriority))
  /\ att' = Append(att, NewAttempts)
  /\ last' = [op |-> "execute", id |-> Len(reqs) + 1]
  /\ RetryUnchanged

\* request() resolves before the timer of the attempt fires.
RtAttemptResolves(id, value) ==
  /\ ResolveAttempt(id)
  /\ att' = [att EXCEPT ![id].outcome = Resolved(value)]
  /\ last' = [op |-> "resolve", id |-> id]
  /\ RetryUnchanged

\* An attempt ends with `thrown`; `left` underlying calls are left running.
AttemptEnds(id, thrown, left) ==
  LET e == catchError(att[id].lastError, thrown)
  IN  \/ /\ RetryAttempt(id)
         /\ att' = [att EXCEPT ![id].lastError = e, ![id].orphans = @ + left]
         /\ last' = [op |-> "retry", id |-> id, thrown |-> thrown]
      \/ /\ RejectRequest(id)
         /\ att' = [att EXCEPT ![id].lastError = e, ![id].orphans = @ + left,
                               ![id].outcome = Rejected(rejectionError(e))]
         /\ last' = [op |-> "reject", id |-> id, thrown |-> thrown]

\* request() rejects before the timer of the attempt fires.
RtAttemptThrows(id, thrown) ==
  /\ AttemptEnds(id, thrown, 0)
  /\ RetryUnchanged

\* The timer of the attempt fires first: the race rejects with the timeout
\* error and the underlying call goes on.
RtAttemptTimesOut(id) ==
  /\ AttemptEnds(id, TimeoutError, 1)
  /\ RetryUnchanged

RtBackoffElapses(id) ==
  /\ NextAttempt(id)
  /\ last' = [op |-> "attempt", id |-> id]
  /\ UNCHANGED att
  /\ RetryUnchanged

\* A call left running by a fired timer settles.
RtLateSettle(id) ==
  /\ att[id].orphans > 0
  /\ att' = [att EXCEPT ![id] = discardLate(@)]
  /\ last' = [op |-> "lateSettle", id |-> id]
  /\ UNCHANGED <<queue, activeConnections, reqs>>
  /\ RetryUnchanged

RtClearQueue ==
  /\ reqs' = clearQueue(queue, reqs).reqs
  /\ queue' = clearQueue(queue, reqs).queue
  /\ att' = [id \in 1..Len(att) |->
               IF \E i \in 1..Len(queue) : queue[i] = id
                 THEN [att[id] EXCEPT !.outcome = Rejected(CancelError)]
                 ELSE att[id]]
  /\ UNCHANGED activeConnections
  /\ last' = [op |-> "clearQueue"]
  /\ RetryUnchanged

InitRetry ==
  /\ InitRest
  /\ \E ra \in RetryLimits :
       cfg = [DefaultCfg EXCEPT !.maxConnections = 1, !.retryAttempts = ra]

NextRetry ==
  \/ RtExecute
  \/ \E id \in 1..Len(reqs), value \in RetryValues : RtAttemptResolves(id, value)
  \/ \E id \in 1..Len(reqs), thrown \in Thrown : RtAttemptThrows(id, thrown)
  \/ \E id \in 1..Len(reqs) : RtAttemptTimesOut(id)
  \/ \E id \in 1..Len(reqs) : RtBackoffElapses(id)
  \/ \E id \in 1..Len(reqs) : RtLateSettle(id)
  \/ RtClearQueue
  \/ PoolDrain
  \/ PoolDrainPoll

SpecRetry == InitRetry /\ [][NextRetry]_vars

\* The same pool with one retry, to follow every request to its end.
InitRetryOnce ==
  /\ InitRest
  /\ cfg = [DefaultCfg EXCEPT !.maxConnections = 1, !.retryAttempts = 1]

\* Timers fire: the timer of every awaited attempt, the backoff timer and
\* the poll timer of drain.  Nothing is assumed of the underlying calls.
FairSpecRetry ==
  /\ InitRetryOnce /\ [][NextRetry]_vars
  /\ \A id \in 1..MaxRetryReqs :
       /\ WF_vars(id \in 1..Len(reqs) /\ RtAttemptTimesOut(id))
       /\ WF_vars(id \in 1..Len(reqs) /\ RtBackoffElapses(id))
  /\ WF_vars(PoolDrainPoll)

-----------------------------------------------------------------------------
(* Properties of ConnectionPool *)

Dispatched(R) == {id \in 1..Len(R) : R[id].state \in {"running", "backoff"}}
Queued(R) == {id \in 1..Len(R) : R[id].state = "queued"}
Settled(R) == {id \in 1..Len(R) : R[id].state \in {"resolved", "rejected", "cancelled"}}

QueueIds == {queue[i] : i \in 1..Len(queue)}

\* C1: activeConnections stays within 0..maxConnections and counts exactly the
\* dispatched requests; when more than maxConnections requests are unsettled,
\* maxConnections of them are dispatched and all the others are queued.
C1_ActiveBoundedByMaxConnections ==
  /\ 0 <= activeConnections /\ activeConnections <= maxConnections
  /\ activeConnections = Cardinality(Dispatched(reqs))
  /\ QueueIds = Queued(reqs) /\ Len(queue) = Cardinality(Queued(reqs))
  /\ Cardinality(Dispatched(reqs) \cup Queued(reqs)) > maxConnections =>
       /\ Cardinality(Dispatched(reqs)) = maxConnections
       /\ Len(queue) = Cardinality(Dispatched(reqs) \cup Queued(reqs)) - maxConnections

\* More unsettled requests than slots, one of the dispatched ones waiting to
\* retry after a failed attempt, and an earlier request already settled.
C1_Witness ==
  /\ Len(queue) > 0 /\ activeConnections = maxConnections
  /\ \E id \in Dispatched(reqs) : reqs[id].state = "backoff"
  /\ Settled(reqs) # {}

\* C6: a request whose every attempt failed is invoked exactly n + 1 times for
\* the configured retryAttempts n, and is rejected only then.
C6_RejectedAfterConfiguredAttempts ==
  \A id \in 1..Len(reqs) :
    /\ reqs[id].invocations <= cfg.retryAttempts + 1
    /\ reqs[id].state = "rejected" => reqs[id].invocations = cfg.retryAttempts + 1

\* C7: a request taken from the queue has the greatest priority among the
\* queued requests and, among those of its priority, is the earliest
\* submitted; a dispatched request is never put back in the queue.
C7_DispatchByPriorityThenFifo ==
  [][/\ \A id \in Queued(reqs) \cap Dispatched(reqs') :
          \A other \in Queued(reqs') :
             \/ reqs[id].priority > reqs'[other].priority
             \/ reqs[id].priority = reqs'[other].priority /\ id < other
     /\ \A id \in Dispatched(reqs) : reqs'[id].state # "queued"]_vars

\* A request overtook an earlier one of lower priority that is still queued,
\* and it had itself waited in the queue behind the dispatched request.
C7_Witness ==
  \E id \in Dispatched(reqs), other \in Queued(reqs), first \in Settled(reqs) :
     /\ other < id /\ first < other
     /\ reqs[id].priority > reqs[other].priority
     /\ maxConnections = 1

\* Scenario C: maxConnections = 2 and op1 (priority 0), op2 (priority 0),
\* op3 (priority 5) submitted in that order to an idle pool.
ScenarioC ==
  /\ maxConnections = 2
  /\ Len(reqs) >= 3
  /\ reqs[1].priority = 0 /\ reqs[2].priority = 0 /\ reqs[3].priority = 5

NoneSettledOfThree == Settled(reqs) \cap {1, 2, 3} = {}

\* C8 as stated: the first active set is {op3, op1} and op2 waits.
C8_FirstActiveSetIsOp3Op1 ==
  (ScenarioC /\ NoneSettledOfThree) =>
     Dispatched(reqs) = {3, 1} /\ 2 \in Queued(reqs)

\* C8 amended: the first active set is {op1, op2}, each dispatched on
\* submission; op3 waits in the queue and is dispatched only in the step in
\* which op1 or op2 settles.
C8_FirstActiveSetIsOp1Op2 ==
  /\ [](ScenarioC /\ NoneSettledOfThree =>
          Dispatched(reqs) = {1, 2} /\ 3 \in Queued(reqs))
  /\ [][(ScenarioC /\ 3 \in Queued(reqs) /\ 3 \in Dispatched(reqs')) =>
          \E id \in {1, 2} : id \in Dispatched(reqs) /\ id \in Settled(reqs')]_vars

\* op3 has just taken the slot op1 gave back; op2 is still running.
C8_Witness ==
  /\ ScenarioC
  /\ reqs[1].state = "resolved" /\ 2 \in Dispatched(reqs) /\ 3 \in Dispatched(reqs)
  /\ last = [op |-> "resolve", id |-> 1]

\* C13: clearQueue rejects every queued, not yet dispatched entry with the
\* cancellation error and leaves the queue empty; it changes nothing about the
\* dispatched requests and leaves activeConnections as it was; a cancelled
\* entry stays cancelled: no later step dispatches it.
C13_ClearQueueCancelsOnlyQueued ==
  [][/\ last'.op = "clearQueue" =>
          /\ queue' = <<>>
          /\ Len(reqs') = Len(reqs)
          /\ \A id \in 1..Len(reqs) :
               reqs'[id] = IF id \in Queued(reqs)
                             THEN [reqs[id] EXCEPT !.state = "cancelled"]
                             ELSE reqs[id]
          /\ activeConnections' = activeConnections
     /\ \A id \in 1..Len(reqs) :
          reqs[id].state = "cancelled" =>
             /\ reqs'[id] = reqs[id] /\ reqs[id].invocations = 0
             /\ id \notin {queue'[i] : i \in 1..Len(queue')}]_vars

\* clearQueue cancelled a waiting request while an earlier one was running,
\* and the running one then resolved its caller.
C13_Witness ==
  /\ last.op = "resolve"
  /\ \E id \in 1..Len(reqs) :
       /\ reqs[id].state = "cancelled" /\ last.id < id
       /\ reqs[last.id].state = "resolved"
  /\ activeConnections = 0 /\ queue = <<>>

\* C14: the caller of drain is resolved only by a test of the loop condition
\* made when activeConnections = 0 and the queue is empty; while a request is
\* dispatched or queued the caller keeps waiting.
C14_DrainResolvesOnlyWhenIdle ==
  [][/\ (drainPc # "resolved" /\ drainPc' = "resolved")
          => /\ activeConnections = 0 /\ queue = <<>>
             /\ activeConnections' = 0 /\ queue' = <<>>
             /\ Dispatched(reqs') = {} /\ Queued(reqs') = {}
     /\ (last'.op \in {"drain", "drainPoll"}
           /\ (Dispatched(reqs) # {} \/ Queued(reqs) # {}))
          => drainPc' = "waiting"]_vars

\* drain was called while the pool was busy, waited, and was resolved by a
\* poll made after the last request had settled.
C14_Witness ==
  /\ drainPc = "resolved" /\ last.op = "drainPoll"
  /\ Len(reqs) >= 2 /\ Settled(reqs) = 1..Len(reqs)

\* C30: between the synchronous steps of the pool no request waits in the
\* queue while a slot is free: a non-empty queue implies
\* activeConnections = maxConnections.
C30_QueuedOnlyWhenAllSlotsTaken ==
  Len(queue) > 0 => activeConnections = maxConnections

\* A request resolved, its slot went to the head of the queue at once and
\* another request is still waiting behind a full pool.
C30_Witness ==
  /\ last.op = "resolve" /\ Len(queue) > 0
  /\ activeConnections = maxConnections
  /\ \E id \in 1..Len(reqs) : reqs[id].state = "running" /\ id # last.id

-----------------------------------------------------------------------------
(* Properties of the attempts of ConnectionPool.executeRequest *)

\* C21: when the last attempt of a dispatched operation has failed, by error
\* or by timeout, the caller is rejected with the error of that attempt (as
\* an Error carrying its message): not with the error kept from an earlier
\* attempt and not with the generic error.
C21_RejectedWithLastAttemptError ==
  [][last'.op = "reject" =>
       /\ att'[last'.id].outcome.status = "rejected"
       /\ att'[last'.id].outcome.error =
            [isError |-> TRUE, message |-> last'.thrown.message]
       /\ att'[last'.id].outcome.error # GenericError]_vars

\* The first attempt timed out, its call was left running, and the second
\* and last attempt failed with http_500: the caller got http_500.
C21_Witness ==
  /\ last.op = "reject" /\ last.thrown.message = "http_500"
  /\ reqs[last.id].invocations = 2 /\ att[last.id].orphans = 1
  /\ att[last.id].outcome = Rejected([isError |-> TRUE, message |-> "http_500"])

\* C22: an attempt whose timer fires before its call settles fails with the
\* timeout error and is handled like any failed attempt: retried after the
\* backoff when attempts remain, otherwise the caller is rejected with the
\* timeout error; a call that settles after its timer fired changes nothing
\* for the request and its caller; what a caller got never changes.
C22_TimedOutAttemptFailsLateResultDiscarded ==
  [][/\ (last'.op \in {"retry", "reject"} /\ last'.thrown = TimeoutError) =>
          /\ att'[last'.id].lastError = TimeoutError
          /\ IF reqs[last'.id].attempt < retryAttempts
               THEN /\ last'.op = "retry" /\ reqs'[last'.id].state = "backoff"
                    /\ att'[last'.id].outcome = Pending
               ELSE /\ last'.op = "reject"
                    /\ att'[last'.id].outcome = Rejected(TimeoutError)
     /\ last'.op = "lateSettle" =>
          /\ reqs' = reqs /\ queue' = queue
          /\ activeConnections' = activeConnections
          /\ \A id \in 1..Len(att) :
               /\ att'[id].outcome = att[id].outcome
               /\ att'[id].lastError = att[id].lastError
     /\ \A id \in 1..Len(att) :
          att[id].outcome # Pending => att'[id].outcome = att[id].outcome]_vars

\* The call of a timed-out first attempt settled after the retry had resolved
\* the caller with v1: the caller still holds v1.
C22_Witness ==
  /\ last.op = "lateSettle"
  /\ att[last.id].outcome = Resolved("v1") /\ att[last.id].lastError = TimeoutError
  /\ reqs[last.id].invocations = 2 /\ att[last.id].orphans = 0

\* The underlying operations invoked and not yet settled: the call of every
\* awaited attempt and the calls left running by fired timers.
RECURSIVE SumOrphans(_, _)
SumOrphans(A, i) == IF i > Len(A) THEN 0 ELSE A[i].orphans + SumOrphans(A, i + 1)
UnsettledCalls ==
  Cardinality({id \in 1..Len(reqs) : reqs[id].state = "running"})
    + SumOrphans(att, 1)

\* C28: the number of underlying operations invoked and not yet settled is
\* at most maxConnections, also when a timed-out call is still running while
\* its retry runs.
C28_UnsettledCallsBoundedByMaxConnections == UnsettledCalls <= maxConnections

\* C24: every operation handed to execute has its caller settled in the end
\* (resolved, rejected after the attempts, or rejected by clearQueue), and a
\* waiting drain() is resolved in the end, with no assumption on the
\* underlying calls; a completion gives its slot back and dispatches from the
\* queue in the same step.
C24_EveryRequestSettlesAndDrainResolves ==
  /\ \A id \in 1..MaxRetryReqs :
       [](id \in 1..Len(reqs) =>
            <>(id \in 1..Len(att) /\ att[id].outcome # Pending))
  /\ [](drainPc = "waiting" => <>(drainPc = "resolved"))
  /\ [][last'.op \in {"resolve", "reject"} =>
          /\ activeConnections' =
               IF queue = <<>> THEN activeConnections - 1 ELSE activeConnections
          /\ queue # <<>> => /\ queue' = Tail(SortByPriority(queue, reqs))
                              /\ reqs'[Head(SortByPriority(queue, reqs))].state
                                   = "running"]_vars

\* Two requests were settled and a waiting drain() was resolved by a poll
\* while a call left behind by a timed-out attempt was still running.
C24_Witness ==
  /\ drainPc = "resolved" /\ last.op = "drainPoll"
  /\ Len(reqs) = 2 /\ \A id \in 1..2 : att[id].outcome # Pending
  /\ \E id \in 1..2 : att[id].orphans > 0
  /\ \E id \in 1..2 : att[id].outcome.status = "resolved"

-----------------------------------------------------------------------------
(* OptimizedDownloadApiSdk, with its default options: cache, circuit        *)
(* breaker and connection pooling enabled.                                  *)

DefaultCacheTtl == 30000
cacheTtl == OrDefault(cfg.cacheTtl, DefaultCacheTtl)

Operations == {"createJob", "getJobStatus", "cancelJob", "downloadJobZip"}
OperationKeys == Operations \X JobIds     \* `${name}_${argument}`

\* The priority each operation hands to PooledHttpClient.
CreatePriority == 1
StatusPriority == 2
CancelPriority == 1
PriorityOf(op) ==
  CASE op = "createJob" -> CreatePriority
    [] op = "getJobStatus" -> StatusPriority
    [] op = "cancelJob" -> CancelPriority

CachesEveryOperation(op) == TRUE
\* Only getJobStatus passes a cacheKey and useCache = true.
UsesCache(op) == op = "getJobStatus"
\* downloadJobZip calls fetch itself; the other three go through the pool.
UsesPool(op) == op # "downloadJobZip"

NeverInFlight(rq, key) == 0
\* requestQueue.has(operation) / requestQueue.get(operation): the call whose
\* promise is stored under the key, 0 when there is none.
InFlight(rq, key) == rq[key]

finallyKeepsEntry(rq, key) == rq
\* The finally callback of the stored promise: requestQueue.delete(operation).
finallyDelete(rq, key) == [rq EXCEPT ![key] = 0]

\* Every caller waiting on the promise of primary call p, p included.
Waiting(C, p) == {c \in 1..Len(C) : C[c].primary = p /\ C[c].status = "pending"}

ClientUnchanged == UNCHANGED <<cfg, hist, drainPc, wait, att, registry>>

\* A caller invokes one of the four operations: cancelJob invalidates first;
\* then executeWithOptimizations up to its `await promise`.
ClientCall(op, job) ==
  /\ Len(calls) < MaxClientCalls
  /\ LET c == Len(calls) + 1
         key == <<op, job>>
         cache1 == IF op = "cancelJob"
                     THEN invalidate(cache, StatusKey(job)) ELSE cache
         g == get(cache1, StatusKey(job), now)
         call == [op |-> op, job |-> job, primary |-> 0, status |-> "pending",
                  req |-> 0]
     IN  IF UsesCache(op) /\ g.result # Null
           THEN \* served from the cache
                /\ cache' = g.cache
                /\ calls' = Append(calls, [call EXCEPT !.status = "fulfilled"])
                /\ last' = [op |-> "call", call |-> c, how |-> "cache",
                            result |-> g.result]
                /\ UNCHANGED <<brk, pending, queue, activeConnections, reqs,
                               requestQueue>>
           ELSE
             /\ cache' = IF UsesCache(op) THEN g.cache ELSE cache1
             /\ IF InFlight(requestQueue, key) # 0
                  THEN \* the stored promise is returned to this caller
                       /\ calls' = Append(calls,
                            [call EXCEPT !.primary = InFlight(requestQueue, key)])
                       /\ last' = [op |-> "call", call |-> c, how |-> "shared"]
                       /\ UNCHANGED <<brk, pending, queue, activeConnections,
                                      reqs, requestQueue>>
                  ELSE
                    LET gate == breakerGate(brk, now)
                    IN  /\ brk' = gate.brk
                        /\ IF ~gate.invoked
                             THEN \* rejected by the breaker; the map entry
                                  \* set for the rejected promise is deleted
                                  \* again by its finally callback
                                  /\ calls' = Append(calls,
                                       [call EXCEPT !.primary = c,
                                                    !.status = "rejected"])
                                  /\ last' = [op |-> "call", call |-> c,
                                              how |-> "circuit_open"]
                                  /\ UNCHANGED <<pending, queue,
                                                 activeConnections, reqs,
                                                 requestQueue>>
                             ELSE \* requestFn is called
                                  /\ pending' = pending + 1
                                  /\ requestQueue' =
                                       [requestQueue EXCEPT ![key] = c]
                                  /\ last' = [op |-> "call", call |-> c,
                                              how |-> "request"]
                                  /\ IF UsesPool(op)
                                       THEN /\ PoolBecomes(execute(queue,
                                                 activeConnections, reqs,
                                                 PriorityOf(op)))
                                            /\ calls' = Append(calls,
                                                 [call EXCEPT !.primary = c,
                                                      !.req = Len(reqs) + 1])
                                       ELSE /\ calls' = Append(calls,
                                                 [call EXCEPT !.primary = c])
                                            /\ UNCHANGED <<queue,
                                                 activeConnections, reqs>>
  /\ UNCHANGED now
  /\ ClientUnchanged

\* The promise of primary call p settles: the breaker records the outcome,
\* the finally callback deletes the map entry, a successful cacheable result
\* is written to the cache, and every caller holding the promise gets the
\* outcome (recorded in `last` with the callers that received it).
SettleCall(p, ok, result) ==
  /\ brk' = IF ok THEN onSuccess(brk) ELSE onFailure(brk, now)
  /\ pending' = pending - 1
  /\ requestQueue' = finallyDelete(requestQueue, <<calls[p].op, calls[p].job>>)
  /\ cache' = IF ok /\ UsesCache(calls[p].op)
                THEN set(cache, StatusKey(calls[p].job), result, cacheTtl, now)
                ELSE cache
  /\ calls' = [c \in 1..Len(calls) |->
                 IF c \in Waiting(calls, p)
                   THEN [calls[c] EXCEPT
                           !.status = IF ok THEN "fulfilled" ELSE "rejected"]
                   ELSE calls[c]]
  /\ last' = [op |-> "settle", call |-> p, callers |-> Waiting(calls, p),
              status |-> IF ok THEN "fulfilled" ELSE "rejected",
              result |-> result]

PrimaryOf(id) == CHOOSE p \in 1..Len(calls) : calls[p].req = id

\* The pooled request of a call resolves with the server's response.
ClientRequestSucceeds(id, value) ==
  /\ ResolveAttempt(id)
  /\ SettleCall(PrimaryOf(id), TRUE, value)
  /\ UNCHANGED now
  /\ ClientUnchanged

\* An attempt of the pooled request of a call fails and is retried.
ClientRequestRetries(id) ==
  /\ RetryAttempt(id)
  /\ last' = [op |-> "retry", call |-> PrimaryOf(id)]
  /\ UNCHANGED <<now, cache, brk, pending, requestQueue, calls>>
  /\ ClientUnchanged

ClientBackoffElapses(id) ==
  /\ NextAttempt(id)
  /\ last' = [op |-> "attempt", call |-> PrimaryOf(id)]
  /\ UNCHANGED <<now, cache, brk, pending, requestQueue, calls>>
  /\ ClientUnchanged

\* The last attempt of the pooled request of a call fails.
ClientRequestFails(id) ==
  /\ RejectRequest(id)
  /\ SettleCall(PrimaryOf(id), FALSE, "request_failed")
  /\ UNCHANGED now
  /\ ClientUnchanged

\* The fetch of downloadJobZip settles.
ClientFetchSettles(p, ok, result) ==
  /\ calls[p].primary = p /\ calls[p].status = "pending"
  /\ ~UsesPool(calls[p].op)
  /\ SettleCall(p, ok, result)
  /\ UNCHANGED <<now, queue, activeConnections, reqs>>
  /\ ClientUnchanged

ClientFailureThresholds == {1}
ClientConnectionLimits == {1}
ClientJobs == {<<1>>}

InitClient ==
  /\ now = 0
  /\ last = [op |-> "new"]
  /\ cache = <<>>
  /\ brk = IdleBreaker
  /\ pending = 0
  /\ hist = IdleHist
  /\ queue = <<>>
  /\ activeConnections = 0
  /\ reqs = <<>>
  /\ requestQueue = [key \in OperationKeys |-> 0]
  /\ calls = <<>>
  /\ drainPc = "none"
  /\ wait = IdleWait
  /\ att = <<>>
  /\ registry = IdleRegistry
  /\ \E ft \in ClientFailureThresholds, mc \in ClientConnectionLimits :
       cfg = [DefaultCfg EXCEPT !.failureThreshold = ft, !.recoveryTimeout = 1,
                                !.maxConnections = mc, !.retryAttempts = 1,
                                !.cacheTtl = 1, !.defaultTtl = 1]

NextClient ==
  \/ Tick
  \/ \E op \in Operations, job \in ClientJobs : ClientCall(op, job)
  \/ \E id \in 1..Len(reqs), value \in Values : ClientRequestSucceeds(id, value)
  \/ \E id \in 1..Len(reqs) : ClientRequestRetries(id)
  \/ \E id \in 1..Len(reqs) : ClientBackoffElapses(id)
  \/ \E id \in 1..Len(reqs) : ClientRequestFails(id)
  \/ \E p \in 1..Len(calls), value \in Values : ClientFetchSettles(p, TRUE, value)
  \/ \E p \in 1..Len(calls) : ClientFetchSettles(p, FALSE, "request_failed")

SpecClient == InitClient /\ [][NextClient]_vars

\* clearOptimizations(): cache.clear() and circuitBreaker.forceClose().
clearOptimizations(c, b) == [cache |-> <<>>, brk |-> reset(b)]

shutdownClearsBeforeDrain(active, q, c, b) ==
  [pc |-> IF drainWaits(active, q) THEN "waiting" ELSE "resolved",
   cache |-> clearOptimizations(c, b).cache,
   brk |-> clearOptimizations(c, b).brk]
\* shutdown() from a test of drain's loop condition on: it goes on waiting,
\* or drain returns, clearOptimizations runs and shutdown resolves.
shutdownStep(active, q, c, b) ==
  IF drainWaits(active, q)
    THEN [pc |-> "waiting", cache |-> c, brk |-> b]
    ELSE [pc |-> "resolved", cache |-> clearOptimizations(c, b).cache,
          brk |-> clearOptimizations(c, b).brk]

ShutdownBecomes(r) ==
  /\ drainPc' = r.pc
  /\ cache' = r.cache
  /\ brk' = r.brk
  /\ UNCHANGED <<now, cfg, pending, hist, queue, activeConnections, reqs,
                 requestQueue, calls, wait, att, registry>>

\* shutdown() is called.
ClientShutdown ==
  /\ drainPc = "none"
  /\ ShutdownBecomes(shutdownStep(activeConnections, queue, cache, brk))
  /\ last' = [op |-> "shutdown"]

\* The 100 ms timer of drain's loop fires.
ClientShutdownPoll ==
  /\ drainPc = "waiting"
  /\ ShutdownBecomes(shutdownStep(activeConnections, queue, cache, brk))
  /\ last' = [op |-> "shutdownPoll"]

\* Calls are made until shutdown() is called; none is made afterwards.
ClientCallBeforeShutdown(op, job) ==
  /\ drainPc = "none"
  /\ ClientCall(op, job)

NextShutdown ==
  \/ \E op \in Operations, job \in ClientJobs :
       ClientCallBeforeShutdown(op, job)
  \/ \E id \in 1..Len(reqs), value \in Values : ClientRequestSucceeds(id, value)
  \/ \E id \in 1..Len(reqs) : ClientRequestRetries(id)
  \/ \E id \in 1..Len(reqs) : ClientBackoffElapses(id)
  \/ \E id \in 1..Len(reqs) : ClientRequestFails(id)
  \/ \E p \in 1..Len(calls), value \in Values : ClientFetchSettles(p, TRUE, value)
  \/ \E p \in 1..Len(calls) : ClientFetchSettles(p, FALSE, "request_failed")
  \/ ClientShutdown
  \/ ClientShutdownPoll

SpecShutdown == InitClient /\ [][NextShutdown]_vars

\* The same client reading and cancelling two jobs, the id of one being a
\* prefix of the id of the other.
CancelOperations == {"getJobStatus", "cancelJob"}

NextCancel ==
  \/ \E op \in CancelOperations, job \in JobIds : ClientCall(op, job)
  \/ \E id \in 1..Len(reqs), value \in Values : ClientRequestSucceeds(id, value)
  \/ \E id \in 1..Len(reqs) : ClientRequestRetries(id)
  \/ \E id \in 1..Len(reqs) : ClientBackoffElapses(id)
  \/ \E id \in 1..Len(reqs) : ClientRequestFails(id)

SpecCancel == InitClient /\ [][NextCancel]_vars

-----------------------------------------------------------------------------
(* OptimizedDownloadApiSdk.waitForJobCompletion.  The status read it awaits  *)
(* is a getJobStatus call of the client above: it settles with a job or an  *)
(* error (a circuit-open rejection included).  The clock is observed up to  *)
(* MaxTime: the wait starts early enough for its deadline to lie within     *)
(* that span, and a timer due later fires at MaxTime.                       *)

JobStatuses == {"pending", "downloading", "completed", "failed", "cancelled"}
TerminalStatuses == {"completed", "failed", "cancelled"}
AdaptiveThresholdMs == 60000

WaitTimeouts == {0, 1, 2}
PollIntervals == {0, 1}

Min(a, b) == IF a < b THEN a ELSE b

\* The loop condition: Date.now() - startTime < timeout.
waitContinuesAlways(w, t) == TRUE
waitContinues(w, t) == t - w.startTime < w.timeout

\* The head of the while loop: the next status read is issued, or the loop
\* is left and the timeout error built from lastStatus is thrown.
loopHead(w, t) ==
  IF waitContinues(w, t)
    THEN [w EXCEPT !.pc = "polling"]
    ELSE [w EXCEPT !.pc = "timedout",
                   !.result = IF w.lastStatus = Null THEN "unknown"
                                                     ELSE w.lastStatus]

adaptiveInterval(w, t) ==
  IF t - w.startTime > AdaptiveThresholdMs THEN w.pollInterval * 2
                                           ELSE w.pollInterval

WaitUnchanged ==
  UNCHANGED <<now, cfg, cache, brk, pending, hist, queue, activeConnections,
              reqs, requestQueue, calls, drainPc, att, registry>>

\* waitForJobCompletion(jobId, {pollInterval, timeout}) is called.
WaitStart(timeout, pollInterval) ==
  /\ wait.pc = "idle"
  /\ now + timeout <= MaxTime
  /\ wait' = loopHead([wait EXCEPT !.startTime = now, !.timeout = timeout,
                                   !.pollInterval = pollInterval], now)
  /\ last' = [op |-> "wait"]
  /\ WaitUnchanged

\* The awaited getJobStatus resolves with a job of the given status.
WaitStatusArrives(status) ==
  /\ wait.pc = "polling"
  /\ wait' = IF status \in TerminalStatuses
               THEN [wait EXCEPT !.pc = "returned", !.lastStatus = status,
                                 !.result = status]
               ELSE [wait EXCEPT !.pc = "sleeping", !.lastStatus = status,
                                 !.wake = Min(now + adaptiveInterval(wait, now),
                                              MaxTime)]
  /\ last' = [op |-> "status", status |-> status]
  /\ WaitUnchanged

\* The awaited getJobStatus rejects: the catch block warns and waits.
WaitStatusFails ==
  /\ wait.pc = "polling"
  /\ wait' = [wait EXCEPT !.pc = "sleeping",
                          !.wake = Min(now + wait.pollInterval, MaxTime)]
  /\ last' = [op |-> "statusError"]
  /\ WaitUnchanged

\* The setTimeout of the loop body fires: back to the head of the loop.
WaitTimerFires ==
  /\ wait.pc = "sleeping"
  /\ now >= wait.wake
  /\ wait' = loopHead(wait, now)
  /\ last' = [op |-> "timer"]
  /\ WaitUnchanged

InitWait == InitRest /\ cfg = DefaultCfg

NextWait ==
  \/ Tick
  \/ \E timeout \in WaitTimeouts, pollInterval \in PollIntervals :
       WaitStart(timeout, pollInterval)
  \/ \E status \in JobStatuses : WaitStatusArrives(status)
  \/ WaitStatusFails
  \/ WaitTimerFires

SpecWait == InitWait /\ [][NextWait]_vars

\* Time passes, timers fire, and every status read settles: a pooled request
\* ends by its own timer after a bounded number of attempts.
FairSpecWait ==
  /\ SpecWait
  /\ WF_vars(Tick)
  /\ WF_vars(WaitTimerFires)
  /\ WF_vars((\E status \in JobStatuses : WaitStatusArrives(status))
               \/ WaitStatusFails)

-----------------------------------------------------------------------------
(* ExponentialBackoffCircuitBreaker: a CircuitBreaker whose recovery time   *)
(* grows with the failure count.  The breaker is taken up OPEN, with the    *)
(* failures counted so far (none after a trip()), and is then probed at     *)
(* later times.                                                             *)

DefaultBackoffMultiplier == 2
DefaultMaxBackoffTime == 300000
MaxBackoffExponent == 10

backoffMultiplier == OrDefault(cfg.backoffMultiplier, DefaultBackoffMultiplier)
maxBackoffTime == OrDefault(cfg.maxBackoffTime, DefaultMaxBackoffTime)

BackoffMultipliers == {0, 1}        \* 0 stands for an omitted option
MaxBackoffTimes == {0, 4}
BackoffTimes == {1, 2, 3, 4, 5, 1024, 1025, 2049}

\* Math.pow on non-negative integers
RECURSIVE Pow(_, _)
Pow(b, e) == IF e = 0 THEN 1 ELSE b * Pow(b, e - 1)

calculateBackoffTimeAnyExponent(b) ==
  Min(recoveryTimeout * Pow(backoffMultiplier, b.failures), maxBackoffTime)
calculateBackoffTime(b) ==
  Min(recoveryTimeout * Pow(backoffMultiplier, Min(b.failures, MaxBackoffExponent)),
      maxBackoffTime)

\* The override of shouldAttemptReset.
backoffShouldAttemptReset(b, t) == t - b.lastFailureTime > calculateBackoffTime(b)

\* CircuitBreaker.execute up to `await fn()`, with the override.
backoffGate(b, t) ==
  LET b1 == [b EXCEPT !.totalRequests = @ + 1]
  IN  IF b1.state = "OPEN"
        THEN IF backoffShouldAttemptReset(b1, t)
               THEN [brk |-> [b1 EXCEPT !.state = "HALF_OPEN"], invoked |-> TRUE]
               ELSE [brk |-> b1, invoked |-> FALSE]
        ELSE [brk |-> b1, invoked |-> TRUE]

BackoffUnchanged ==
  UNCHANGED <<cfg, cache, hist, queue, activeConnections, reqs, requestQueue,
              calls, drainPc, wait, att, registry>>

\* Time passes up to a later reading of Date.now().
BkAdvance(t) ==
  /\ t > now
  /\ now' = t
  /\ last' = [op |-> "advance"]
  /\ UNCHANGED <<brk, pending>>
  /\ BackoffUnchanged

BkExecute ==
  /\ brk.totalRequests < MaxBackoffFailures + MaxCalls
  /\ pending = 0
  /\ LET g == backoffGate(brk, now)
     IN  /\ brk' = g.brk
         /\ pending' = IF g.invoked THEN pending + 1 ELSE pending
         /\ last' = [op |-> "execute",
                     result |-> IF g.invoked THEN "invoked" ELSE "circuit_open"]
  /\ UNCHANGED now
  /\ BackoffUnchanged

BkSucceed ==
  /\ pending > 0
  /\ pending' = pending - 1
  /\ brk' = onSuccess(brk)
  /\ last' = [op |-> "success"]
  /\ UNCHANGED now
  /\ BackoffUnchanged

BkFail ==
  /\ pending > 0
  /\ brk.failures < MaxBackoffFailures
  /\ pending' = pending - 1
  /\ brk' = onFailure(brk, now)
  /\ last' = [op |-> "failure"]
  /\ UNCHANGED now
  /\ BackoffUnchanged

InitBackoff ==
  /\ now = 0
  /\ last = [op |-> "new"]
  /\ cache = <<>>
  /\ pending = 0
  /\ hist = IdleHist
  /\ queue = <<>>
  /\ activeConnections = 0
  /\ reqs = <<>>
  /\ requestQueue = <<>>
  /\ calls = <<>>
  /\ drainPc = "none"
  /\ wait = IdleWait
  /\ att = <<>>
  /\ registry = IdleRegistry
  /\ \E m \in BackoffMultipliers, mb \in MaxBackoffTimes :
       cfg = [DefaultCfg EXCEPT !.failureThreshold = 1, !.recoveryTimeout = 1,
                                !.successThreshold = 1,
                                !.backoffMultiplier = m, !.maxBackoffTime = mb]
  /\ \E f \in 0..MaxBackoffFailures :
       brk = [state |-> "OPEN", failures |-> f, successes |-> 0,
              totalRequests |-> f, lastFailureTime |-> 0]

NextBackoff ==
  \/ \E t \in BackoffTimes : BkAdvance(t)
  \/ BkExecute
  \/ BkSucceed
  \/ BkFail

SpecBackoff == InitBackoff /\ [][NextBackoff]_vars

\* C39: an OPEN backoff breaker lets an execute through (HALF_OPEN, the
\* operation invoked) exactly when now - lastFailureTime exceeds
\* min(recoveryTimeout * backoffMultiplier^min(failures, 10), maxBackoffTime);
\* that time is at most maxBackoffTime and is not smaller with one failure
\* more.
C39_AdmitsAfterBackoffTime ==
  /\ [](/\ calculateBackoffTime(brk) <= maxBackoffTime
        /\ calculateBackoffTime([brk EXCEPT !.failures = @ + 1])
             >= calculateBackoffTime(brk))
  /\ [][(last'.op = "execute" /\ brk.state = "OPEN") =>
         LET e == IF brk.failures < 10 THEN brk.failures ELSE 10
             power == recoveryTimeout * Pow(backoffMultiplier, e)
             limit == IF power < maxBackoffTime THEN power ELSE maxBackoffTime
         IN  IF now - brk.lastFailureTime > limit
               THEN brk'.state = "HALF_OPEN" /\ last'.result = "invoked"
                      /\ pending' = pending + 1
               ELSE brk'.state = "OPEN" /\ last'.result = "circuit_open"
                      /\ pending' = pending]_vars

\* With the default multiplier and limit, a breaker that had counted eleven
\* failures let a call through 1025 ms after the last one: the exponent
\* stops at 10.
C39_Witness ==
  /\ last.op = "execute" /\ last.result = "invoked"
  /\ brk.state = "HALF_OPEN" /\ brk.failures = 11
  /\ backoffMultiplier = 2 /\ maxBackoffTime = DefaultMaxBackoffTime
  /\ now - brk.lastFailureTime = 1025

-----------------------------------------------------------------------------
(* Properties of OptimizedDownloadApiSdk *)

\* The calls whose own request is under way: a call still in flight.
InFlightCalls(C) ==
  {p \in 1..Len(C) : C[p].primary = p /\ C[p].status = "pending"}
KeyOf(call) == <<call.op, call.job>>

\* C5: a call whose operation key equals that of a call still in flight is
\* handed that call's pending promise and starts no request of its own (no
\* gate of the breaker, no pool request, no fetch), so one request serves the
\* key; when the request settles, every caller holding the promise is settled
\* in that step with the one outcome.
C5_IdenticalCallsShareOneRequest ==
  /\ [](/\ \A p1, p2 \in InFlightCalls(calls) :
             KeyOf(calls[p1]) = KeyOf(calls[p2]) => p1 = p2
        /\ pending = Cardinality(InFlightCalls(calls)))
  /\ [][/\ \A p \in InFlightCalls(calls) :
             (last'.op = "call" /\ KeyOf(calls'[Len(calls')]) = KeyOf(calls[p])) =>
                /\ calls'[Len(calls')].primary = p
                /\ calls'[Len(calls')].status = "pending"
                /\ InFlightCalls(calls') = InFlightCalls(calls)
                /\ UNCHANGED <<brk, pending, queue, activeConnections, reqs>>
        /\ \A p \in InFlightCalls(calls) :
             calls'[p].status # "pending" =>
                /\ last'.op = "settle" /\ last'.callers = Waiting(calls, p)
                /\ \A c \in Waiting(calls, p) : calls'[c].status = last'.status]_vars

\* A request that two later identical calls had joined has settled for all
\* three callers at once.
C5_Witness ==
  /\ last.op = "settle" /\ Cardinality(last.callers) = 3
  /\ \A c \in last.callers : calls[c].status = "fulfilled" /\ calls[c].primary = last.call
  /\ Len(reqs) = 1

\* C16: every underlying network call of createJob, getJobStatus, cancelJob
\* and downloadJobZip runs inside ConnectionPool.execute inside
\* CircuitBreaker.execute: each call still in flight has a request in the pool
\* (queued or holding a slot) and is one of the operations the breaker has
\* admitted and not yet seen settle.
C16_EveryRequestInPoolInBreaker ==
  /\ \A p \in InFlightCalls(calls) :
       /\ calls[p].req \in 1..Len(reqs)
       /\ reqs[calls[p].req].state \in {"queued", "running", "backoff"}
  /\ pending = Cardinality(InFlightCalls(calls))
  /\ activeConnections + Len(queue) = Cardinality(InFlightCalls(calls))

\* The pooled requests of cancelJob calls whose first attempt starts in the
\* step from pool state R to R2.
CancelsStarted(C, R, R2) ==
  {p \in 1..Len(C) :
     /\ C[p].op = "cancelJob" /\ C[p].req # 0
     /\ R2[C[p].req].state = "running"
     /\ (C[p].req > Len(R) \/ R[C[p].req].state = "queued")}

\* C17: when the underlying request of cancelJob(j) starts, the cache holds
\* no entry for job j.  A request dispatched by the cancelJob call itself
\* starts after the invalidation of that call; a request dispatched from the
\* queue starts in processQueue, before the callbacks of the request that
\* freed the slot run, so it sees the cache as it was before that step.
C17_NoCachedStatusWhenCancelStarts ==
  [][\A p \in CancelsStarted(calls', reqs, reqs') :
       ~CacheHasKey(IF last'.op = "call" THEN cache' ELSE cache,
                    StatusKey(calls'[p].job))]_vars

\* The keys whose entry in c2 was stored by a set made since c.
Written(c, c2) ==
  {k \in CacheKeys(c2) :
     \/ ~CacheHasKey(c, k)
     \/ CacheEntry(c2, k).data # CacheEntry(c, k).data
     \/ CacheEntry(c2, k).timestamp # CacheEntry(c, k).timestamp
     \/ CacheEntry(c2, k).ttl # CacheEntry(c, k).ttl
     \/ CacheEntry(c2, k).accessCount < CacheEntry(c, k).accessCount}

\* C18: the client writes to the cache only when a getJobStatus request has
\* succeeded, and then stores the returned value under the job's cache key
\* with the configured TTL; a failed request, a circuit-open rejection and
\* the settlement of createJob, cancelJob and downloadJobZip write nothing.
C18_CacheWrittenOnlyBySuccessfulStatus ==
  [][LET success == /\ last'.op = "settle" /\ last'.status = "fulfilled"
                    /\ calls[last'.call].op = "getJobStatus"
         key == StatusKey(calls[last'.call].job)
     IN  IF success
           THEN /\ Written(cache, cache') \subseteq {key}
                /\ CacheHasKey(cache', key)
                /\ CacheEntry(cache', key) =
                     [key |-> key, data |-> last'.result, timestamp |-> now,
                      ttl |-> cacheTtl, accessCount |-> 0, lastAccessed |-> now]
           ELSE Written(cache, cache') = {}]_vars

\* A getJobStatus request succeeded after a createJob request had succeeded
\* and a cancelJob request had failed: the cache holds the status alone.
C18_Witness ==
  /\ last.op = "settle" /\ last.status = "fulfilled"
  /\ calls[last.call].op = "getJobStatus"
  /\ Len(cache) = 1 /\ cache[1].data = last.result
  /\ \E c \in 1..Len(calls) : calls[c].op = "createJob" /\ calls[c].status = "fulfilled"
  /\ \E c \in 1..Len(calls) : calls[c].op = "cancelJob" /\ calls[c].status = "rejected"

\* The requests of the client waiting in the pool queue, by operation.
QueuedFor(R, C, ops) ==
  {id \in 1..Len(R) : R[id].state = "queued" /\ C[PrimaryOf(id)].op \in ops}

\* C23: when a createJob or cancelJob request and a getJobStatus request are
\* both waiting in the pool queue, the status read is not dispatched while
\* the creation or cancellation request stays in the queue.
C23_CreationAndCancelBeforeStatusRead ==
  [][\A id \in QueuedFor(reqs, calls, {"getJobStatus"}) :
       reqs'[id].state = "running" =>
         \A other \in QueuedFor(reqs, calls, {"createJob", "cancelJob"}) :
           reqs'[other].state # "queued"]_vars

\* The primary calls whose promise has not settled, for one operation key.
Unsettled(C, key) ==
  {p \in 1..Len(C) : /\ C[p].primary = p /\ C[p].status = "pending"
                     /\ <<C[p].op, C[p].job>> = key}

\* C25: requestQueue holds an operation key exactly while the request made
\* for that key is unsettled, and then it holds that request's promise; the
\* settlement removes the entry on success and on failure, a call rejected
\* at once by the open breaker leaves none, and a call for a key with no
\* entry that is neither answered from the cache nor rejected by the breaker
\* starts a new request.
C25_InFlightMapHoldsExactlyUnsettledRequests ==
  /\ [](\A key \in OperationKeys :
          /\ requestQueue[key] # 0 <=> Unsettled(calls, key) # {}
          /\ requestQueue[key] # 0 => Unsettled(calls, key) = {requestQueue[key]})
  /\ [][/\ last'.op = "settle" =>
            requestQueue'[<<calls[last'.call].op, calls[last'.call].job>>] = 0
        /\ (last'.op = "call" /\ last'.how = "circuit_open") =>
            requestQueue' = requestQueue
        /\ \A key \in OperationKeys :
             (/\ last'.op = "call" /\ last'.how \notin {"cache", "circuit_open"}
              /\ <<calls'[last'.call].op, calls'[last'.call].job>> = key
              /\ requestQueue[key] = 0) =>
                 /\ last'.how = "request"
                 /\ requestQueue'[key] = last'.call]_vars

\* A status read failed and opened the breaker, the same call was then
\* rejected at once by the open breaker, and after the recovery timeout the
\* same call started a new request: the map holds this third call only.
C25_Witness ==
  /\ last.op = "call" /\ last.how = "request" /\ last.call = 3
  /\ \A c \in 1..3 : calls[c].op = "getJobStatus"
  /\ calls[1].status = "rejected" /\ calls[1].req # 0
  /\ calls[2].status = "rejected" /\ calls[2].req = 0
  /\ requestQueue[<<"getJobStatus", calls[3].job>>] = 3
  /\ \A key \in OperationKeys :
       key # <<"getJobStatus", calls[3].job>> => requestQueue[key] = 0

\* C29: a getJobStatus(j) answered from the cache after a cancelJob(j) that
\* has settled got its status from a request started after that cancel was
\* called: the result of a status read that was in flight when cancelJob was
\* called is not what a later read finds in the cache.
C29_NoPreCancelStatusServedFromCache ==
  [][(last'.op = "call" /\ last'.how = "cache") =>
       \A c \in 1..Len(calls) :
         (/\ calls[c].op = "cancelJob" /\ calls[c].status # "pending"
          /\ calls[c].job = calls'[last'.call].job) =>
            \E p \in (c + 1)..Len(calls) :
              /\ calls[p].op = "getJobStatus" /\ calls[p].job = calls[c].job
              /\ calls[p].primary = p /\ calls[p].req # 0]_vars

\* C36: cancelJob(j) leaves the cached status of every other job as it was,
\* also when one of the two ids is a prefix of the other.
C36_CancelKeepsOtherJobsCached ==
  [][\A j \in JobIds :
       (/\ last'.op = "call" /\ calls'[last'.call].op = "cancelJob"
        /\ calls'[last'.call].job = j) =>
          \A other \in JobIds \ {j} :
            CacheHasKey(cache, StatusKey(other)) =>
              /\ CacheHasKey(cache', StatusKey(other))
              /\ CacheEntry(cache', StatusKey(other))
                   = CacheEntry(cache, StatusKey(other))]_vars

====
